---- MODULE Spec2Model ----
(***************************************************************************)
(* Model of the HIPAA photo-collector server core:                         *)
(*   routes/auth.js    login / logout / verify, authenticateToken,         *)
(*                     cleanupExpiredSessions (src/unnamed/part_000)       *)
(*   app.js            authLimiter mounted in front of /auth               *)
(*   routes/upload.js  secure upload, history, delete, generateDataKey     *)
(*   routes/audit.js   audit log query (src/unnamed/part_001)              *)
(*                                                                         *)
(* Time is counted in clock ticks; MsPerSec ticks make one second, so the  *)
(* millisecond -> second truncation done by the token library is visible.  *)
(* The general limiter of app.js (100 requests per window) is not          *)
(* modelled: the request budgets below stay far under its maximum.         *)
(***************************************************************************)
EXTENDS Integers, Sequences, FiniteSets, Bags, TLC

(* ---------------- bounds ---------------- *)
MaxTime == 7
MaxSessions == 2
MaxInFlight == 2
MaxAuthFailures == 2
MaxLimiterRequests == 6
MaxLimiterInFlight == 6
MaxUploads == 2
MaxUploadLogins == 1
MaxLogCalls == 1
MaxCryptoCalls == 2
MaxDecryptCalls == 1
MaxPhiCalls == 1
MaxHashCalls == 1
MaxDeletes == 2
MaxQueued == 2
MaxRuns == 3
MaxConcurrentRuns == 2
MaxPageUploads == 2

(* ---------------- program constants (scaled clock) ---------------- *)
\* ticks per second: Date.now() is in milliseconds, token iat/exp in seconds
MsPerSec == 2
\* lifetime of a session record: Date.now() + 60*60*1000
SessionTtl == 4
\* authLimiter: max
AuthMax == 5
\* login route: recentAttempts >= 3
RouteAttemptLimit == 3

ClientIPs == {"ip1", "ip2"}
\* the client whose sessions and logins are followed; the other client
\* only sends logins for a user that does not exist
SessionClients == {"ip1"}
Usernames == {"demo", "nobody"}
Passwords == {"good", "bad"}
JwtSecret == "your-super-secret-jwt-key"
None == "none"

\* bcrypt hash of a password, and bcrypt.compare
BcryptHash(password) == <<"bcrypt", password>>
\* a comparison that accepts every password
BcryptCompareAny(password, hash) == TRUE
BcryptCompare(password, hash) == hash = BcryptHash(password)

\* the mock user database
users ==
    [u \in {"demo"} |->
        [id |-> "user_001", username |-> "demo",
         passwordHash |-> BcryptHash("good"),
         organizationId |-> "org_healthcare_001",
         role |-> "healthcare_provider",
         permissions |-> {"read", "write", "upload"},
         isActive |-> TRUE]]

\* JWT_EXPIRES_IN in seconds: the default '1h', or a longer configured value
JwtExpiresInDefault == SessionTtl \div MsPerSec
JwtExpiresInChoices == {JwtExpiresInDefault, JwtExpiresInDefault + 1}

\* what node's crypto module offers; it has no createCipherGCM and no
\* createDecipherGCM
CryptoExports == {"randomBytes", "pbkdf2Sync", "createHmac", "timingSafeEqual",
                  "createCipheriv", "createDecipheriv"}
\* a crypto module that also has the two functions utils/encryption.js calls
CryptoExportsWithGCM == CryptoExports \cup {"createCipherGCM", "createDecipherGCM"}
\* a browser: fetch(request) consumes the body of the request it is given,
\* so a later request.arrayBuffer() rejects; an IDBRequest is no thenable, so
\* `await store.getAll()` yields the request object and not the records
PlatformBrowser == "browser"
\* the host sw.js is written as if for: the body of a request whose fetch
\* failed can be read again, and awaiting a store request yields its result
\* while the transaction stays usable.  No browser is such a host.
PlatformPromised == "promised"

(* ---------------- state ---------------- *)
VARIABLES
    now,            \* the wall clock, in ticks
    jwtExpiresIn,   \* process.env.JWT_EXPIRES_IN || '1h', in seconds
    activeSessions, \* Map sessionId -> session record
    nextUuid,       \* number of uuidv4() values drawn so far
    issued,         \* history: the successful logins in order, each with its
                    \* token and the createdAt / expiresAt of its session
    loginsInFlight, \* bag of login requests suspended in bcrypt.compare
    authHits,       \* authLimiter store: hits per client IP in the window
    resp,           \* the response most recently sent
    revoked,        \* history: session ids whose logout has completed
    overlapped,     \* history: sessions created while another login was suspended
    failCount,      \* history: failed login responses per IP in the window
    failLog,        \* history: statuses of wrong-credential logins per IP, arrival order
    loginOutcomes,  \* history: <<audit event, visible response>> of failed logins
    uploadsInFlight,\* secure uploads suspended in `await generateDataKey()`
    s3,             \* the bucket: object key -> object
    kmsCalls,       \* history: the upload each generated data key was issued to
    encryptLog,     \* history: the encryption.encrypt calls, [uploadId, key]
    cryptoExports,  \* the functions the runtime's crypto module offers
    kmsFailures,    \* history: uploads whose generateDataKey() threw, with the
                    \* number of kms.generateDataKey calls made for them
    produced,       \* history: what /upload/secure handed to the audit logger
                    \* and sent as response bodies
    auditQueries,   \* history: the queries GET /audit/logs passed to queryAuditLogs
    auditLog,       \* what the winston audit logger was given, in order
    securityLog,    \* what logSecurityEvent wrote to the security alerts log
    fallbackLog,    \* what the catch block of log() wrote to the console logger
    logCalls,       \* history: the calls of auditLogger.log with their outcome
    cryptoLog,      \* history: the calls of encrypt and decrypt with their results
    platform,       \* what the service worker's host does with a consumed
                    \* request body and with an awaited IDBRequest
    online,         \* whether the network is reachable (navigator.onLine)
    uploads,        \* sw.js: the 'uploads' object store, key -> queued upload
    runs,           \* sw.js: the processQueuedUploads calls suspended in a fetch
    processRuns,    \* history: number of processQueuedUploads calls that
                    \* got to their first fetch
    fetchLog,       \* history: per queued upload, the outcomes of the fetches
                    \* queue processing made for it, in order
    clientMessages, \* history: what the service worker posted to its clients
    handled,        \* history: the S3 requests handleS3Request answered
    isUploading,    \* script.js: this.isUploading
    retryCount,     \* script.js: this.retryCount
    uploadBtnDisabled, \* script.js: this.elements.uploadToS3Btn.disabled
    shownMessage,   \* script.js: the message showMessage displayed last
    attempts,       \* script.js: the attemptUpload calls suspended in an await
    retryTimers,    \* script.js: the pending setTimeout(attemptUpload, 3000)
    uploadLog       \* history: per accepted upload, what its attempts did

workerVars == <<platform, online, uploads, runs, processRuns, fetchLog,
                clientMessages, handled>>
pageVars == <<isUploading, retryCount, uploadBtnDisabled, shownMessage, attempts,
              retryTimers, uploadLog>>
clientVars == <<workerVars, pageVars>>

vars == <<now, jwtExpiresIn, activeSessions, nextUuid, issued, loginsInFlight,
          authHits, resp, revoked, overlapped, failCount, failLog,
          loginOutcomes, uploadsInFlight, s3, kmsCalls, encryptLog,
          cryptoExports, clientVars, kmsFailures, produced, auditQueries,
          auditLog, securityLog, fallbackLog, logCalls, cryptoLog>>
loggerVars == <<auditLog, securityLog, fallbackLog, logCalls>>
uploadVars == <<uploadsInFlight, s3, kmsCalls, encryptLog,
                cryptoExports, clientVars, kmsFailures, produced, auditQueries, loggerVars,
                cryptoLog>>

(* ---------------- helpers ---------------- *)
MapSet(m, k, v) == [x \in DOMAIN m \cup {k} |-> IF x = k THEN v ELSE m[x]]
\* Map.delete that leaves the entry in place
MapDeleteKeeps(m, k) == m
MapDelete(m, k) == [x \in DOMAIN m \ {k} |-> m[x]]
\* a Map.has that finds nothing
MapHasNever(m, k) == FALSE
MapHas(m, k) == k \in DOMAIN m

RECURSIVE SumAttempts(_, _)
SumAttempts(m, S) ==
    IF S = {} THEN 0
    ELSE LET s == CHOOSE x \in S : TRUE
         IN m[s].loginAttempts + SumAttempts(m, S \ {s})

\* recentAttempts of the login route
RecentAttempts(m, ip) ==
    SumAttempts(m, {s \in DOMAIN m : m[s].clientIP = ip /\ m[s].loginAttempts > 0})

\* an id that does not change from one call to the next
UuidFixed(n) == 1
\* uuidv4(): a value never returned before
Uuidv4(n) == n + 1

\* jwt.sign: HS256 signature over the payload under the secret
JwtSignature(payload, secret) == [key |-> secret, over |-> payload]
TokenPayload(user, sessionId, t, expiresIn) ==
    [userId |-> user.id, username |-> user.username,
     organizationId |-> user.organizationId, role |-> user.role,
     permissions |-> user.permissions, sessionId |-> sessionId,
     iat |-> t \div MsPerSec, exp |-> (t \div MsPerSec) + expiresIn]
JwtSign(payload, secret) == [payload |-> payload, sig |-> JwtSignature(payload, secret)]

\* jwt.verify: signature, then exp against the clock in whole seconds
JwtExpired(tok, t) == (t \div MsPerSec) >= tok.payload.exp
JwtVerify(tok, secret, t) ==
    /\ tok.sig = JwtSignature(tok.payload, secret)
    /\ ~JwtExpired(tok, t)

\* authenticateToken middleware: TRUE when next() is called with req.user
AuthenticateToken(tok, t) == JwtVerify(tok, JwtSecret, t)

\* a token whose payload was altered after signing
Tampered(tok) == [tok EXCEPT !.payload.exp = @ + MaxTime]
IssuedTokens == {issued[i].token : i \in 1..Len(issued)}
PresentableTokens == IssuedTokens \cup {Tampered(t) : t \in IssuedTokens}

\* an age test that never finds a session too old
SessionNeverExpired(session, t) == FALSE
\* session age test shared by verify and cleanupExpiredSessions
SessionExpired(session, t) == t > session.expiresAt

\* a response as the caller sees it (status, message, token) together with
\* what the handler knew: the session id, whether the credentials matched,
\* and the audit event it logged; `at` is the clock when it was sent.  For
\* logout and verify `token` is the token the request presented.  `token`
\* is the empty set when the response carries none.
Response(op, ip, status, message, sid, token, valid, audit, at) ==
    [op |-> op, ip |-> ip, status |-> status, message |-> message,
     sid |-> sid, token |-> token, valid |-> valid, audit |-> audit, at |-> at]
NoResponse == Response(None, None, 0, None, 0, {}, FALSE, None, 0)
TokenOf(r) == CHOOSE t \in r.token : TRUE
Visible(r) == [status |-> r.status, message |-> r.message, token |-> r.token]

MsgLimiter == "Too many authentication attempts, please try again later."
MsgTooMany == "Too many login attempts. Please try again later."
MsgUserNotFoundLeaky == "User not found"
MsgUserNotFound == "Invalid credentials"
MsgInvalidPassword == "Invalid credentials"
MsgDisabled == "Account is disabled"
MsgBadToken == "Invalid or expired token"
MsgSessionExpired == "Session expired"
MsgOk == "ok"
MsgLoggedOut == "Logged out successfully"

\* authLimiter: express-rate-limit with its default handler, which sends the
\* message with status 429 and calls no audit logger.
\* The store counts the request on arrival ...
LimiterIncrement(hits, ip) == [hits EXCEPT ![ip] = @ + 1]
LimiterBlocksLate(hits, ip) == hits[ip] > AuthMax + 1
LimiterBlocks(hits, ip) == hits[ip] > AuthMax
\* ... and skipSuccessfulRequests takes it back when the response is < 400
LimiterDecrement(hits, ip) == [hits EXCEPT ![ip] = IF @ > 0 THEN @ - 1 ELSE 0]
\* a limiter that takes every request back, failed ones too
LimiterSettleAll(hits, ip, status) == LimiterDecrement(hits, ip)
LimiterSettle(hits, ip, status) ==
    IF status < 400 THEN LimiterDecrement(hits, ip) ELSE hits

Saturate(n, cap) == IF n > cap THEN cap ELSE n
CredentialsValid(username, password) ==
    /\ username \in DOMAIN users
    /\ users[username].isActive
    /\ BcryptCompare(password, users[username].passwordHash)

(* ---------------- initial state ---------------- *)
InitCommon ==
    /\ now = 0
    /\ jwtExpiresIn \in JwtExpiresInChoices
    /\ activeSessions = << >>
    /\ nextUuid = 0
    /\ issued = << >>
    /\ loginsInFlight = EmptyBag
    /\ authHits = [ip \in ClientIPs |-> 0]
    /\ resp = NoResponse
    /\ revoked = {}
    /\ overlapped = {}
    /\ failCount = [ip \in ClientIPs |-> 0]
    /\ failLog = [ip \in ClientIPs |-> << >>]
    /\ loginOutcomes = {}
    /\ uploadsInFlight = {}
    /\ s3 = << >>
    /\ kmsCalls = << >>
    /\ encryptLog = << >>
    /\ kmsFailures = {}
    /\ produced = {}
    /\ auditQueries = {}
    /\ auditLog = << >>
    /\ securityLog = << >>
    /\ fallbackLog = << >>
    /\ logCalls = << >>
    /\ cryptoLog = << >>
    /\ online = TRUE
    /\ uploads = << >>
    /\ runs = {}
    /\ processRuns = 0
    /\ fetchLog = << >>
    /\ clientMessages = {}
    /\ handled = << >>
    /\ isUploading = FALSE
    /\ retryCount = 0
    /\ uploadBtnDisabled = FALSE
    /\ shownMessage = None
    /\ attempts = {}
    /\ retryTimers = {}
    /\ uploadLog = << >>

\* the server on node: utils/encryption.js finds no createCipherGCM
Init == InitCommon /\ cryptoExports = CryptoExports /\ platform = PlatformBrowser

(* ---------------- POST /auth/login ---------------- *)
\* the level the login route passes to auditLogger.log with each event
LoginAuditLevel(audit) ==
    CASE audit \in {"excessive_login_attempts", "login_user_not_found",
                    "login_inactive_user", "login_invalid_password"} -> "warning"
      [] audit = "login_success" -> "info"
      [] OTHER -> None
LogAttempt(log, ip, status) ==
    IF Len(log[ip]) < AuthMax + 1 THEN [log EXCEPT ![ip] = Append(@, status)] ELSE log
CountFailure(fc, ip) == [fc EXCEPT ![ip] = Saturate(@ + 1, AuthMax + 1)]

\* the request arrives: authLimiter, then the handler up to `await bcrypt.compare`
LoginBegin(ip, username, password) ==
    LET hits == LimiterIncrement(authHits, ip)
        valid == CredentialsValid(username, password)
        Reject(status, message, audit) ==
            /\ resp' = Response("login", ip, status, message, 0, {}, valid, audit, now)
            /\ authHits' = LimiterSettle(hits, ip, status)
            /\ failCount' = CountFailure(failCount, ip)
            /\ failLog' = IF valid THEN failLog ELSE LogAttempt(failLog, ip, status)
            /\ loginOutcomes' = loginOutcomes \cup {<<audit, Visible(resp')>>}
            /\ UNCHANGED loginsInFlight
    IN  /\ IF LimiterBlocks(hits, ip)
              THEN Reject(429, MsgLimiter, None)
           ELSE IF RecentAttempts(activeSessions, ip) >= RouteAttemptLimit
              THEN Reject(429, MsgTooMany, "excessive_login_attempts")
           ELSE IF username \notin DOMAIN users
              THEN Reject(401, MsgUserNotFound, "login_user_not_found")
           ELSE IF ~users[username].isActive
              THEN Reject(401, MsgDisabled, "login_inactive_user")
           ELSE /\ loginsInFlight' = loginsInFlight (+)
                       SetToBag({[ip |-> ip, username |-> username, password |-> password]})
                /\ authHits' = hits
                \* a wrong password can only end in the 401 of LoginFinish
                /\ failLog' = IF valid THEN failLog ELSE LogAttempt(failLog, ip, 401)
                /\ UNCHANGED <<resp, failCount, loginOutcomes>>
        /\ UNCHANGED <<now, jwtExpiresIn, activeSessions, nextUuid, issued,
                       revoked, overlapped, uploadVars>>

\* bcrypt.compare resolves: the rest of the handler
LoginFinish(r) ==
    /\ BagIn(r, loginsInFlight)
    /\ LET user == users[r.username]
           rest == loginsInFlight (-) SetToBag({r})
       IN  /\ loginsInFlight' = rest
           /\ IF ~BcryptCompare(r.password, user.passwordHash)
              THEN /\ resp' = Response("login", r.ip, 401, MsgInvalidPassword, 0, {},
                                       FALSE, "login_invalid_password", now)
                   /\ authHits' = LimiterSettle(authHits, r.ip, 401)
                   /\ failCount' = CountFailure(failCount, r.ip)
                   /\ loginOutcomes' = loginOutcomes \cup
                          {<<"login_invalid_password", Visible(resp')>>}
                   /\ UNCHANGED <<activeSessions, nextUuid, issued, overlapped>>
              ELSE LET sessionId == Uuidv4(nextUuid)
                       token == JwtSign(TokenPayload(user, sessionId, now, jwtExpiresIn),
                                        JwtSecret)
                   IN  /\ nextUuid' = nextUuid + 1
                       /\ activeSessions' = MapSet(activeSessions, sessionId,
                              [userId |-> user.id, username |-> user.username,
                               organizationId |-> user.organizationId,
                               clientIP |-> r.ip, createdAt |-> now,
                               expiresAt |-> now + SessionTtl, loginAttempts |-> 0])
                       /\ issued' = Append(issued, [token |-> token, createdAt |-> now,
                                                   expiresAt |-> now + SessionTtl])
                       /\ resp' = Response("login", r.ip, 200, MsgOk, sessionId, {token},
                                           TRUE, "login_success", now)
                       /\ authHits' = LimiterSettle(authHits, r.ip, 200)
                       /\ overlapped' = IF rest # EmptyBag
                                        THEN overlapped \cup {sessionId} ELSE overlapped
                       /\ UNCHANGED <<failCount, loginOutcomes>>
    /\ UNCHANGED <<now, jwtExpiresIn, revoked, failLog, uploadVars>>

(* ---------------- POST /auth/logout ---------------- *)
Logout(ip, tok) ==
    LET hits == LimiterIncrement(authHits, ip)
        sessionId == tok.payload.sessionId
    IN  /\ IF LimiterBlocks(hits, ip)
              THEN /\ resp' = Response("logout", ip, 429, MsgLimiter, sessionId, {tok},
                                       FALSE, None, now)
                   /\ authHits' = hits
                   /\ UNCHANGED <<activeSessions, revoked>>
           ELSE IF ~AuthenticateToken(tok, now)
              THEN /\ resp' = Response("logout", ip, 403, MsgBadToken, sessionId, {tok},
                                       FALSE, "invalid_token", now)
                   /\ authHits' = hits
                   /\ UNCHANGED <<activeSessions, revoked>>
           ELSE /\ activeSessions' = IF MapHas(activeSessions, sessionId)
                                     THEN MapDelete(activeSessions, sessionId)
                                     ELSE activeSessions
                /\ revoked' = revoked \cup {sessionId}
                /\ resp' = Response("logout", ip, 200, MsgLoggedOut, sessionId, {tok},
                                    TRUE, "logout_success", now)
                           @@ [stored |-> MapHas(activeSessions, sessionId)]
                /\ authHits' = LimiterSettle(hits, ip, 200)
        /\ UNCHANGED <<now, jwtExpiresIn, nextUuid, issued, loginsInFlight,
                       overlapped, failCount, failLog, loginOutcomes, uploadVars>>

(* ---------------- GET /auth/verify ---------------- *)
Verify(ip, tok) ==
    LET hits == LimiterIncrement(authHits, ip)
        sessionId == tok.payload.sessionId
        Fail(status, message, audit) ==
            /\ resp' = Response("verify", ip, status, message, sessionId, {tok},
                                FALSE, audit, now)
            /\ authHits' = LimiterSettle(hits, ip, status)
    IN  /\ IF LimiterBlocks(hits, ip)
              THEN Fail(429, MsgLimiter, None) /\ UNCHANGED activeSessions
           ELSE IF ~AuthenticateToken(tok, now)
              THEN Fail(403, MsgBadToken, "invalid_token") /\ UNCHANGED activeSessions
           ELSE IF ~MapHas(activeSessions, sessionId)
              THEN Fail(401, MsgSessionExpired, None) /\ UNCHANGED activeSessions
           ELSE IF SessionExpired(activeSessions[sessionId], now)
              THEN /\ Fail(401, MsgSessionExpired, None)
                   /\ activeSessions' = MapDelete(activeSessions, sessionId)
           ELSE /\ resp' = Response("verify", ip, 200, MsgOk, sessionId, {tok},
                                    TRUE, None, now)
                /\ authHits' = LimiterSettle(hits, ip, 200)
                /\ UNCHANGED activeSessions
        /\ UNCHANGED <<now, jwtExpiresIn, nextUuid, issued, loginsInFlight, revoked,
                       overlapped, failCount, failLog, loginOutcomes, uploadVars>>

(* ---------------- utils/encryption.js ---------------- *)
KEY_LENGTH == 32

\* a Buffer of key bytes, its base64 string, and Buffer.from(string, 'base64')
KeyBytes(n, length) == [enc |-> "bytes", no |-> n, length |-> length, pad |-> 0]
Base64Encode(buf) ==
    [enc |-> "base64", no |-> buf.no, length |-> 4 * ((buf.length + 2) \div 3),
     pad |-> (3 - (buf.length % 3)) % 3]
Base64Decode(str) ==
    [enc |-> "bytes", no |-> str.no, length |-> (str.length \div 4) * 3 - str.pad,
     pad |-> 0]

EncryptionFailed == [ok |-> FALSE, error |-> "Encryption failed", data |-> << >>]
DecryptionFailed == [ok |-> FALSE, error |-> "Decryption failed", data |-> << >>]
\* `if (associatedData)`: null and the empty string add no associated data
Aad(associatedData) ==
    IF associatedData = None \/ associatedData = "" THEN None ELSE associatedData
\* the base64 text of iv + ciphertext + tag that AES-256-GCM gives for a
\* plaintext, a key and associated data: what was encrypted under which key,
\* and the tag over the ciphertext, the key and the associated data
Seal(plaintext, encryptionKey, associatedData) ==
    LET ciphertext == [of |-> plaintext, under |-> encryptionKey.no]
    IN  <<[algorithm |-> "aes-256-gcm", ciphertext |-> ciphertext,
           tag |-> [over |-> ciphertext, under |-> encryptionKey.no,
                    aad |-> Aad(associatedData)]]>>
\* encrypt(plaintext, key, associatedData): a string key is decoded from
\* base64, then the key length test, then crypto.createCipherGCM; whatever
\* is thrown becomes 'Encryption failed'.
Encrypt(plaintext, key, associatedData) ==
    LET encryptionKey == IF key.enc = "base64" THEN Base64Decode(key) ELSE key
    IN  IF encryptionKey.length # KEY_LENGTH THEN EncryptionFailed
        ELSE IF "createCipherGCM" \notin cryptoExports THEN EncryptionFailed
        ELSE [ok |-> TRUE, error |-> None,
              data |-> Seal(plaintext, encryptionKey, associatedData)]
\* a decrypt that hands back whatever the ciphertext decrypts to without
\* looking at the tag
DecryptUnauthenticated(encryptedData, key, associatedData) ==
    LET encryptionKey == IF key.enc = "base64" THEN Base64Decode(key) ELSE key
    IN  IF encryptedData = << >> \/ encryptionKey.length # KEY_LENGTH
        THEN DecryptionFailed
        ELSE [ok |-> TRUE, error |-> None, data |-> <<encryptedData[1].ciphertext.of>>]
\* a decrypt that never calls setAAD
DecryptWithoutAAD(encryptedData, key, associatedData) ==
    LET encryptionKey == IF key.enc = "base64" THEN Base64Decode(key) ELSE key
    IN  IF encryptedData = << >> \/ encryptionKey.length # KEY_LENGTH
        THEN DecryptionFailed
        ELSE LET combined == encryptedData[1]
             IN  IF combined.tag = [over |-> combined.ciphertext,
                                    under |-> encryptionKey.no,
                                    aad |-> combined.tag.aad]
                 THEN [ok |-> TRUE, error |-> None, data |-> <<combined.ciphertext.of>>]
                 ELSE DecryptionFailed
\* decrypt(encryptedData, key, associatedData): the same key handling, then
\* crypto.createDecipherGCM, setAuthTag, setAAD, update and final, which
\* throws unless the tag fits key, ciphertext and associated data; whatever
\* is thrown becomes 'Decryption failed'
Decrypt(encryptedData, key, associatedData) ==
    LET encryptionKey == IF key.enc = "base64" THEN Base64Decode(key) ELSE key
    IN  IF encryptionKey.length # KEY_LENGTH THEN DecryptionFailed
        ELSE IF "createDecipherGCM" \notin cryptoExports THEN DecryptionFailed
        ELSE IF encryptedData = << >> THEN DecryptionFailed
        ELSE LET combined == encryptedData[1]
             IN  IF combined.tag = [over |-> combined.ciphertext,
                                    under |-> encryptionKey.no,
                                    aad |-> Aad(associatedData)]
                 THEN [ok |-> TRUE, error |-> None, data |-> <<combined.ciphertext.of>>]
                 ELSE DecryptionFailed

\* an encrypted record with one byte of its ciphertext, or of its tag, changed
TamperedParts == {"ciphertext", "tag"}
Tamper(encryptedData, part) ==
    IF encryptedData = << >> \/ part \notin TamperedParts THEN encryptedData
    ELSE LET combined == encryptedData[1]
         IN  IF part = "ciphertext"
             THEN <<[combined EXCEPT !.ciphertext =
                        [of |-> combined.ciphertext.of,
                         under |-> combined.ciphertext.under, flipped |-> 1]]>>
             ELSE <<[combined EXCEPT !.tag =
                        [over |-> combined.tag.over, under |-> combined.tag.under,
                         aad |-> combined.tag.aad, flipped |-> 1]]>>

\* the calls of the two functions: keys as generateKey() Buffers and as
\* base64 text, one of them too short
Plaintexts == {"photo-1", "photo-2"}
CryptoKeys ==
    {KeyBytes(1, KEY_LENGTH), KeyBytes(2, KEY_LENGTH),
     Base64Encode(KeyBytes(1, KEY_LENGTH)), KeyBytes(3, 16)}
AssociatedData == {None, "", "2024-01-01"}

EncryptCall(plaintext, key, associatedData) ==
    /\ Len(cryptoLog) < MaxCryptoCalls
    /\ cryptoLog' = Append(cryptoLog,
           [op |-> "encrypt", input |-> <<plaintext>>, key |-> key,
            aad |-> associatedData,
            result |-> Encrypt(plaintext, key, associatedData)])
    /\ UNCHANGED <<now, jwtExpiresIn, activeSessions, nextUuid, issued,
                   loginsInFlight, authHits, resp, revoked, overlapped, failCount,
                   failLog, loginOutcomes, uploadsInFlight, s3, kmsCalls,
                   encryptLog, cryptoExports, clientVars, kmsFailures, produced, auditQueries,
                   loggerVars>>
\* decrypt is given what an earlier call returned
DecryptCall(i, key, associatedData) ==
    /\ Len(cryptoLog) < MaxCryptoCalls
    /\ i \in 1..Len(cryptoLog)
    /\ cryptoLog' = Append(cryptoLog,
           [op |-> "decrypt", input |-> cryptoLog[i].result.data, key |-> key,
            aad |-> associatedData,
            result |-> Decrypt(cryptoLog[i].result.data, key, associatedData)])
    /\ UNCHANGED <<now, jwtExpiresIn, activeSessions, nextUuid, issued,
                   loginsInFlight, authHits, resp, revoked, overlapped, failCount,
                   failLog, loginOutcomes, uploadsInFlight, s3, kmsCalls,
                   encryptLog, cryptoExports, clientVars, kmsFailures, produced, auditQueries,
                   loggerVars>>

\* decrypt is given a valid record for SealedPlaintext under SealingKey and
\* the associated data sealedWith, whole or with one byte changed
SealedPlaintext == "photo-1"
SealingKey == KeyBytes(1, KEY_LENGTH)
DecryptSealedCall(sealedWith, part, key, associatedData) ==
    /\ Len(cryptoLog) < MaxDecryptCalls
    /\ LET encryptedData == Tamper(Seal(SealedPlaintext, SealingKey, sealedWith), part)
       IN  cryptoLog' = Append(cryptoLog,
               [op |-> "decryptSealed", input |-> encryptedData, part |-> part,
                sealedWith |-> sealedWith, key |-> key, aad |-> associatedData,
                result |-> Decrypt(encryptedData, key, associatedData)])
    /\ UNCHANGED <<now, jwtExpiresIn, activeSessions, nextUuid, issued,
                   loginsInFlight, authHits, resp, revoked, overlapped, failCount,
                   failLog, loginOutcomes, uploadsInFlight, s3, kmsCalls,
                   encryptLog, cryptoExports, clientVars, kmsFailures, produced, auditQueries,
                   loggerVars>>

(* ---------------- encryptPHI and decryptPHI ---------------- *)
JsonStringify(value) == [json |-> value]
JsonParse(text) == text.json
\* createHMAC(data, key): HMAC-SHA256 of the text under the key, as base64;
\* the digest has 32 bytes
CreateHMAC(data, key) == [hmac |-> data, under |-> key, bytes |-> 32]
\* verifyHMAC(data, hmacValue, key): crypto.timingSafeEqual throws a
\* RangeError when the two buffers differ in length
MsgSameLength == "Input buffers must have the same byte length"
VerifyHMAC(data, hmacValue, key) ==
    LET computedHmac == CreateHMAC(data, key)
    IN  IF hmacValue.bytes # computedHmac.bytes THEN "throws"
        ELSE IF hmacValue = computedHmac THEN "true"
        ELSE "false"

MsgIntegrity == "Data integrity check failed"
MsgMetadataMismatch == "Metadata mismatch detected"
DataWithMetadata(phiData, timestamp) ==
    [data |-> phiData, encrypted_at |-> timestamp, version |-> "1.0"]
\* encryptPHI(phiData, masterKey); timestamp is new Date().toISOString().
\* What encrypt throws is not caught.
EncryptPHI(phiData, masterKey, timestamp) ==
    LET serializedData == JsonStringify(DataWithMetadata(phiData, timestamp))
        encryptedData == Encrypt(serializedData, masterKey, timestamp)
    IN  IF ~encryptedData.ok
        THEN [ok |-> FALSE, error |-> encryptedData.error, envelope |-> << >>]
        ELSE [ok |-> TRUE, error |-> None,
              envelope |-> <<[encrypted_data |-> encryptedData.data,
                              integrity_hash |-> CreateHMAC(encryptedData.data, masterKey),
                              encrypted_at |-> timestamp]>>]

PHIFailed(message, decryptAttempted) ==
    [ok |-> FALSE, error |-> message, data |-> << >>,
     decryptAttempted |-> decryptAttempted]
\* the rest of decryptPHI once the integrity hash has been accepted
DecryptVerifiedPHI(encryptedPHI, masterKey, checkMetadata) ==
    LET decryptedData == Decrypt(encryptedPHI.encrypted_data, masterKey,
                                 encryptedPHI.encrypted_at)
    IN  IF ~decryptedData.ok THEN PHIFailed(decryptedData.error, TRUE)
        ELSE LET parsedData == JsonParse(decryptedData.data[1])
             IN  IF checkMetadata /\ parsedData.encrypted_at # encryptedPHI.encrypted_at
                 THEN PHIFailed(MsgMetadataMismatch, TRUE)
                 ELSE [ok |-> TRUE, error |-> None, data |-> <<parsedData.data>>,
                       decryptAttempted |-> TRUE]
\* a decryptPHI that does not look at the integrity hash
DecryptPHIUnverified(encryptedPHI, masterKey) ==
    DecryptVerifiedPHI(encryptedPHI, masterKey, TRUE)
\* a decryptPHI that does not compare the timestamps
DecryptPHIWithoutMetadataCheck(encryptedPHI, masterKey) ==
    LET verified == VerifyHMAC(encryptedPHI.encrypted_data,
                               encryptedPHI.integrity_hash, masterKey)
    IN  IF verified = "throws" THEN PHIFailed(MsgSameLength, FALSE)
        ELSE IF verified = "false" THEN PHIFailed(MsgIntegrity, FALSE)
        ELSE DecryptVerifiedPHI(encryptedPHI, masterKey, FALSE)
\* decryptPHI(encryptedPHI, masterKey)
DecryptPHI(encryptedPHI, masterKey) ==
    LET verified == VerifyHMAC(encryptedPHI.encrypted_data,
                               encryptedPHI.integrity_hash, masterKey)
    IN  IF verified = "throws" THEN PHIFailed(MsgSameLength, FALSE)
        ELSE IF verified = "false" THEN PHIFailed(MsgIntegrity, FALSE)
        ELSE DecryptVerifiedPHI(encryptedPHI, masterKey, TRUE)

\* the envelope that AES-256-GCM and HMAC-SHA256 give for a payload whose
\* serialized form carries the timestamp `inner` and which is sealed with the
\* timestamp `bound` as associated data; encryptPHI makes the two the same
SealedPHI(phiData, masterKey, inner, bound) ==
    LET encryptedData == Seal(JsonStringify(DataWithMetadata(phiData, inner)),
                              masterKey, bound)
    IN  [encrypted_data |-> encryptedData,
         integrity_hash |-> CreateHMAC(encryptedData, masterKey),
         encrypted_at |-> bound]
\* what can have happened to a stored envelope
PhiDatas == {[patientId |-> "P123456", diagnosis |-> "Hypertension"],
             [patientId |-> "P123456"]}
Timestamps == {"2024-01-01", "2024-02-02"}
EnvelopeChanges ==
    {None, "ciphertext", "tag", "hmac", "hmacTruncated", "timestamp"}
ChangeEnvelope(envelope, change) ==
    CASE change \in TamperedParts ->
            [envelope EXCEPT !.encrypted_data = Tamper(envelope.encrypted_data, change)]
      [] change = "hmac" ->
            [envelope EXCEPT !.integrity_hash =
                [hmac |-> envelope.integrity_hash.hmac,
                 under |-> envelope.integrity_hash.under,
                 bytes |-> envelope.integrity_hash.bytes, flipped |-> 1]]
      [] change = "hmacTruncated" ->
            [envelope EXCEPT !.integrity_hash.bytes = @ - 1]
      [] change = "timestamp" ->
            [envelope EXCEPT !.encrypted_at =
                CHOOSE t \in Timestamps : t # envelope.encrypted_at]
      [] OTHER -> envelope

PhiKey == KeyBytes(1, KEY_LENGTH)
PhiKeys == {PhiKey, KeyBytes(2, KEY_LENGTH)}
EncryptPHICall(phiData, masterKey, timestamp) ==
    /\ Len(cryptoLog) < MaxPhiCalls
    /\ cryptoLog' = Append(cryptoLog,
           [op |-> "encryptPHI", phiData |-> phiData, key |-> masterKey,
            timestamp |-> timestamp,
            result |-> EncryptPHI(phiData, masterKey, timestamp)])
    /\ UNCHANGED <<now, jwtExpiresIn, activeSessions, nextUuid, issued,
                   loginsInFlight, authHits, resp, revoked, overlapped, failCount,
                   failLog, loginOutcomes, uploadsInFlight, s3, kmsCalls,
                   encryptLog, cryptoExports, clientVars, kmsFailures, produced, auditQueries,
                   loggerVars>>
\* decryptPHI is given an envelope sealed under PhiKey, changed or not
DecryptPHICall(phiData, inner, bound, change, masterKey) ==
    /\ Len(cryptoLog) < MaxPhiCalls
    /\ LET envelope == ChangeEnvelope(SealedPHI(phiData, PhiKey, inner, bound), change)
       IN  cryptoLog' = Append(cryptoLog,
               [op |-> "decryptPHI", phiData |-> phiData, inner |-> inner,
                bound |-> bound, change |-> change, key |-> masterKey,
                envelope |-> <<envelope>>,
                result |-> DecryptPHI(envelope, masterKey)])
    /\ UNCHANGED <<now, jwtExpiresIn, activeSessions, nextUuid, issued,
                   loginsInFlight, authHits, resp, revoked, overlapped, failCount,
                   failLog, loginOutcomes, uploadsInFlight, s3, kmsCalls,
                   encryptLog, cryptoExports, clientVars, kmsFailures, produced, auditQueries,
                   loggerVars>>

(* ---------------- hash and verifyHash ---------------- *)
\* Byte strings: [utf8 |-> s] the UTF-8 bytes of the text s, [random |-> n]
\* the n-th outcome of crypto.randomBytes, [utf8OfBase64 |-> b] the UTF-8
\* bytes of the base64 text of b, [decoded |-> s] the bytes that decoding the
\* text s as base64 gives. Texts: [lit |-> s], or [b64 |-> b] the base64 text
\* of the bytes b. Decoding a text that was not made by encoding drops a
\* quarter of its length, so it never gives the text's own UTF-8 bytes.
SaltNull == [null |-> TRUE]
SaltBuffer(bytes) == [buffer |-> bytes]
SaltFalsy(salt) == salt = SaltNull \/ salt = [lit |-> ""]
\* the bytes pbkdf2Sync takes from a salt argument: a string is its UTF-8
Utf8Bytes(text) ==
    IF "lit" \in DOMAIN text THEN [utf8 |-> text.lit] ELSE [utf8OfBase64 |-> text.b64]
SaltBytes(salt) ==
    IF "buffer" \in DOMAIN salt THEN salt.buffer ELSE Utf8Bytes(salt)
\* salt.toString('base64'): a Buffer is encoded, a string is returned as it is
SaltToString(salt) ==
    IF "buffer" \in DOMAIN salt THEN [b64 |-> salt.buffer] ELSE salt
\* Buffer.from(text, 'base64')
BufferFromBase64(text) ==
    IF "b64" \in DOMAIN text THEN text.b64 ELSE [decoded |-> text.lit]
Pbkdf2Sync(data, saltBytes) == [pbkdf2 |-> data, salt |-> saltBytes]
\* hash(data, salt = null); random is what crypto.randomBytes returns if called
Hash(data, salt, random) ==
    LET used == IF SaltFalsy(salt) THEN SaltBuffer([random |-> random]) ELSE salt
    IN  [hash |-> [b64 |-> Pbkdf2Sync(data, SaltBytes(used))],
         salt |-> SaltToString(used)]
\* verifyHash(data, hashedData, salt)
VerifyHash(data, hashedData, salt) ==
    [b64 |-> Pbkdf2Sync(data, BufferFromBase64(salt))] = hashedData

HashDatas == {"patient_id_12345", "sensitive_data", "wrong_data"}
RandomOutcomes == {"r1", "r2"}
Salts == {SaltNull, [lit |-> ""], SaltBuffer([utf8 |-> "test_salt"]),
          [lit |-> "test_salt"], [b64 |-> [random |-> "r1"]]}
\* hash is called twice with the same arguments, then verifyHash with the
\* first result's hash and salt, for the same data and for other data
HashCall(data, salt, random1, random2, other) ==
    /\ Len(cryptoLog) < MaxHashCalls
    /\ LET r == Hash(data, salt, random1)
       IN  cryptoLog' = Append(cryptoLog,
               [op |-> "hash", data |-> data, salt |-> salt, other |-> other,
                result |-> r, again |-> Hash(data, salt, random2),
                verified |-> VerifyHash(data, r.hash, r.salt),
                verifiedOther |-> VerifyHash(other, r.hash, r.salt)])
    /\ UNCHANGED <<now, jwtExpiresIn, activeSessions, nextUuid, issued,
                   loginsInFlight, authHits, resp, revoked, overlapped, failCount,
                   failLog, loginOutcomes, uploadsInFlight, s3, kmsCalls,
                   encryptLog, cryptoExports, clientVars, kmsFailures, produced, auditQueries,
                   loggerVars>>

(* ---------------- routes/upload.js, routes/audit.js ---------------- *)
FileNames == {"a.jpg", "b.jpg"}
OrganizationIds == {"org_healthcare_001", "org_other"}
KmsKeyId == "KMS_KEY_ID"

MsgUploadFailed == "Upload failed. Please try again."
MsgUploaded == "File uploaded successfully"
MsgNoUploadPermission == "Insufficient permissions for upload"
MsgOrgDenied == "Organization access denied"
MsgNoPermission == "Insufficient permissions"
MsgNoDeletePermission == "Insufficient permissions for deletion"
MsgNoAuditPermission == "Insufficient permissions to access audit logs"
MsgNotFound == "Upload not found"
MsgDeleted == "Upload deleted successfully"
MsgKeyFailed == "Failed to generate encryption key"
MsgS3Failed == "S3 upload failed"

\* field values of stored objects, audit events and response bodies
Str(s) == [str |-> s]
Num(n) == [num |-> n]

\* a data key that is the first one over again
GenerateDataKeyCached(n) ==
    [keyId |-> [cmk |-> KmsKeyId],
     plaintextKey |-> Base64Encode(KeyBytes(1, KEY_LENGTH)),
     encryptedKey |-> [wrapped |-> 1]]
\* generateDataKey(): the n-th answer of kms.generateDataKey (AES_256):
\* KeyId names the master key, Plaintext is the data key, CiphertextBlob the
\* data key wrapped under the master key
GenerateDataKey(n) ==
    [keyId |-> [cmk |-> KmsKeyId],
     plaintextKey |-> Base64Encode(KeyBytes(n, KEY_LENGTH)),
     encryptedKey |-> [wrapped |-> n]]

\* all of the modelled clock range lies in one calendar month
YearMonth(t) == 0
\* a photo key that does not start with the organization
PhotoKeyUnscoped(organizationId, fileName, t) ==
    [org |-> "uploads", prefix |-> "encrypted-photos",
     period |-> YearMonth(t), fileName |-> fileName]
PhotoKey(organizationId, fileName, t) ==
    [org |-> organizationId, prefix |-> "encrypted-photos",
     period |-> YearMonth(t), fileName |-> fileName]
MetadataKey(organizationId, uploadId) ==
    [org |-> organizationId, prefix |-> "metadata", uploadId |-> uploadId]

\* s3Metadata and the Tagging of the photo object
S3Metadata(u) ==
    [uploadId |-> Num(u.uploadId), userId |-> Str(u.user.userId),
     username |-> Str(u.user.username), organizationId |-> Str(u.organizationId),
     hashedPatientId |-> Str(u.hashedPatientId),
     originalFilename |-> Str(u.fileName),
     encryptionAlgorithm |-> Str("AES-256-GCM"), hipaaCompliant |-> Str("true")]
PhotoObject(u) ==
    [kind |-> "photo", uploadId |-> u.uploadId,
     Body |-> [cipher |-> u.body], Metadata |-> S3Metadata(u),
     Tagging |-> [Organization |-> Str(u.organizationId),
                  HashedPatientId |-> Str(u.hashedPatientId),
                  UploaderId |-> Str(u.user.userId), Compliance |-> Str("HIPAA")]]
\* a metadata record that carries the data key itself
MetadataRecordLeaky(u) ==
    [kind |-> "metadata", uploadId |-> u.uploadId,
     encryptedMetadata |-> Str("encryptedMetadata"),
     encryptionKeyId |-> u.masterKey.plaintextKey,
     s3Key |-> PhotoKey(u.organizationId, u.fileName, now),
     userId |-> Str(u.user.userId), username |-> Str(u.user.username),
     organizationId |-> Str(u.organizationId)]
\* the JSON document stored under the metadata key
MetadataRecord(u) ==
    [kind |-> "metadata", uploadId |-> u.uploadId,
     encryptedMetadata |-> Str("encryptedMetadata"),
     encryptionKeyId |-> u.masterKey.keyId,
     s3Key |-> PhotoKey(u.organizationId, u.fileName, now),
     userId |-> Str(u.user.userId), username |-> Str(u.user.username),
     organizationId |-> Str(u.organizationId)]

\* what the handler passes to auditLogger.log, and the bodies it sends
AuditEvent(level, eventType, uploadId, fields) ==
    [kind |-> "audit", level |-> level, eventType |-> eventType,
     uploadId |-> uploadId, fields |-> fields]
ResponseBody(status, uploadId, fields) ==
    [kind |-> "response", status |-> status, uploadId |-> uploadId, fields |-> fields]

HashedPatientIds == {"hashed-P1"}

\* POST /upload/secure up to `await generateDataKey()`
UploadBegin(ip, tok, fileName, organizationId) ==
    LET user == tok.payload
        uploadId == Uuidv4(nextUuid)
        hashedPatientId == CHOOSE h \in HashedPatientIds : TRUE
        Deny(message, valid, audit, fields) ==
            /\ resp' = Response("upload", ip, 403, message, user.sessionId, {tok},
                                valid, audit, now)
            /\ produced' = produced \cup
                   {AuditEvent("warning", audit, uploadId, fields),
                    ResponseBody(403, uploadId, [success |-> Str("false"),
                                                 message |-> Str(message)])}
            /\ UNCHANGED uploadsInFlight
    IN  /\ IF ~AuthenticateToken(tok, now)
              THEN /\ resp' = Response("upload", ip, 403, MsgBadToken, user.sessionId,
                                       {tok}, FALSE, "invalid_token", now)
                   /\ UNCHANGED <<nextUuid, uploadsInFlight, produced>>
           ELSE /\ nextUuid' = nextUuid + 1
                /\ IF "upload" \notin user.permissions
                      THEN Deny(MsgNoUploadPermission, TRUE, "upload_permission_denied",
                                [userId |-> Str(user.userId),
                                 username |-> Str(user.username),
                                 organizationId |-> Str(organizationId),
                                 sessionId |-> Num(user.sessionId),
                                 hashedPatientId |-> Str(hashedPatientId)])
                   ELSE IF user.organizationId # organizationId
                      THEN Deny(MsgOrgDenied, TRUE, "upload_organization_mismatch",
                                [userId |-> Str(user.userId),
                                 username |-> Str(user.username),
                                 requestedOrg |-> Str(organizationId),
                                 userOrg |-> Str(user.organizationId)])
                   ELSE /\ uploadsInFlight' = uploadsInFlight \cup
                              {[uploadId |-> uploadId, user |-> user, ip |-> ip,
                                token |-> tok, fileName |-> fileName,
                                organizationId |-> organizationId,
                                hashedPatientId |-> hashedPatientId,
                                stage |-> "kms", kmsRequests |-> 1,
                                masterKey |-> << >>, body |-> << >>,
                                sessionStored |-> MapHas(activeSessions, user.sessionId)]}
                        /\ UNCHANGED <<resp, produced>>
        /\ UNCHANGED <<now, jwtExpiresIn, activeSessions, issued, loginsInFlight,
                       authHits, revoked, overlapped, failCount, failLog,
                       loginOutcomes, s3, kmsCalls, encryptLog, loggerVars, cryptoLog, cryptoExports, clientVars,
                       kmsFailures, auditQueries>>

\* the answer of every path of /upload/secure that ends in the catch block
UploadFailed(u) ==
    Response("upload", u.ip, 500, MsgUploadFailed, u.user.sessionId, {u.token},
             TRUE, "secure_upload_failed", now)
\* ... and what the catch block logs and sends
CatchProduced(u, errorMessage) ==
    {AuditEvent("error", "secure_upload_failed", u.uploadId,
                [uploadId |-> Num(u.uploadId), userId |-> Str(u.user.userId),
                 username |-> Str(u.user.username),
                 organizationId |-> Str(u.organizationId),
                 hashedPatientId |-> Str(u.hashedPatientId),
                 error |-> Str(errorMessage),
                 sessionId |-> Num(u.user.sessionId)]),
     ResponseBody(500, u.uploadId, [success |-> Str("false"),
                                    message |-> Str(MsgUploadFailed)])}

\* kms.generateDataKey answers and the handler calls encryption.encrypt with
\* the key.  When encrypt throws, the catch block answers 500; when it
\* returns, the handler goes on to the first s3.upload and waits for it.
KmsRespond(u) ==
    /\ u \in uploadsInFlight
    /\ u.stage = "kms"
    /\ LET masterKey == GenerateDataKey(Len(kmsCalls) + 1)
           doubleEncryptedImage == Encrypt(u.fileName,
                                           masterKey.plaintextKey, None)
       IN  /\ kmsCalls' = Append(kmsCalls, u.uploadId)
           /\ encryptLog' = Append(encryptLog, [uploadId |-> u.uploadId,
                                                key |-> masterKey.plaintextKey])
           /\ IF doubleEncryptedImage.ok
              THEN /\ uploadsInFlight' = (uploadsInFlight \ {u}) \cup
                          {[u EXCEPT !.stage = "s3photo",
                                     !.masterKey = masterKey,
                                     !.body = doubleEncryptedImage.data]}
                   /\ UNCHANGED <<resp, produced>>
              ELSE /\ uploadsInFlight' = uploadsInFlight \ {u}
                   /\ resp' = UploadFailed(u)
                   /\ produced' = produced \cup
                          CatchProduced(u, doubleEncryptedImage.error)
    /\ UNCHANGED <<now, jwtExpiresIn, activeSessions, nextUuid, issued,
                   loginsInFlight, authHits, revoked, overlapped, failCount,
                   failLog, loginOutcomes, s3, loggerVars, cryptoLog, cryptoExports, clientVars, kmsFailures,
                   auditQueries>>

\* kms.generateDataKey rejects: generateDataKey() logs the error and throws
\* 'Failed to generate encryption key', and the catch block answers 500
KmsFail(u) ==
    /\ u \in uploadsInFlight
    /\ u.stage = "kms"
    /\ uploadsInFlight' = uploadsInFlight \ {u}
    /\ kmsFailures' = kmsFailures \cup
           {[uploadId |-> u.uploadId, kmsRequests |-> u.kmsRequests]}
    /\ resp' = UploadFailed(u)
    /\ produced' = produced \cup CatchProduced(u, MsgKeyFailed)
    /\ UNCHANGED <<now, jwtExpiresIn, activeSessions, nextUuid, issued,
                   loginsInFlight, authHits, revoked, overlapped, failCount,
                   failLog, loginOutcomes, s3, kmsCalls, encryptLog,
                   loggerVars, cryptoLog, cryptoExports, clientVars, auditQueries>>

\* the first s3.upload resolves: the photo object is in the bucket, and the
\* handler starts the second s3.upload with the metadata record
S3PhotoStored(u) ==
    /\ u \in uploadsInFlight
    /\ u.stage = "s3photo"
    /\ s3' = MapSet(s3, PhotoKey(u.organizationId, u.fileName, now), PhotoObject(u))
    /\ uploadsInFlight' = (uploadsInFlight \ {u}) \cup {[u EXCEPT !.stage = "s3meta"]}
    /\ UNCHANGED <<now, jwtExpiresIn, activeSessions, nextUuid, issued,
                   loginsInFlight, authHits, resp, revoked, overlapped, failCount,
                   failLog, loginOutcomes, kmsCalls, encryptLog, loggerVars, cryptoLog, cryptoExports, clientVars,
                   kmsFailures, produced, auditQueries>>

\* either s3.upload rejects: the catch block answers 500 and nothing written
\* before is taken back
S3Fail(u) ==
    /\ u \in uploadsInFlight
    /\ u.stage \in {"s3photo", "s3meta"}
    /\ uploadsInFlight' = uploadsInFlight \ {u}
    /\ resp' = UploadFailed(u)
    /\ produced' = produced \cup CatchProduced(u, MsgS3Failed)
    /\ UNCHANGED <<now, jwtExpiresIn, activeSessions, nextUuid, issued,
                   loginsInFlight, authHits, revoked, overlapped, failCount,
                   failLog, loginOutcomes, s3, kmsCalls, encryptLog,
                   loggerVars, cryptoLog, cryptoExports, clientVars, kmsFailures, auditQueries>>

\* the second s3.upload resolves: the metadata record is stored, the success
\* is logged and answered
S3MetadataStored(u) ==
    /\ u \in uploadsInFlight
    /\ u.stage = "s3meta"
    /\ s3' = MapSet(s3, MetadataKey(u.organizationId, u.uploadId), MetadataRecord(u))
    /\ uploadsInFlight' = uploadsInFlight \ {u}
    /\ resp' = Response("upload", u.ip, 200, MsgUploaded, u.user.sessionId,
                        {u.token}, TRUE, "secure_upload_success", now)
    /\ produced' = produced \cup
           {AuditEvent("info", "secure_upload_success", u.uploadId,
                       [uploadId |-> Num(u.uploadId), userId |-> Str(u.user.userId),
                        username |-> Str(u.user.username),
                        organizationId |-> Str(u.organizationId),
                        hashedPatientId |-> Str(u.hashedPatientId),
                        s3Key |-> PhotoKey(u.organizationId, u.fileName, now),
                        originalFilename |-> Str(u.fileName),
                        sessionId |-> Num(u.user.sessionId)]),
            ResponseBody(200, u.uploadId,
                         [success |-> Str("true"), uploadId |-> Num(u.uploadId),
                          message |-> Str(MsgUploaded)])}
    /\ UNCHANGED <<now, jwtExpiresIn, activeSessions, nextUuid, issued,
                   loginsInFlight, authHits, revoked, overlapped, failCount,
                   failLog, loginOutcomes, kmsCalls, encryptLog, loggerVars, cryptoLog, cryptoExports, clientVars,
                   kmsFailures, auditQueries>>

\* GET /upload/history: the metadata objects under the caller's organization
History(ip, tok) ==
    LET user == tok.payload
        Answer(status, message, valid, audit) ==
            resp' = Response("history", ip, status, message, user.sessionId, {tok},
                             valid, audit, now)
    IN  /\ IF ~AuthenticateToken(tok, now)
              THEN Answer(403, MsgBadToken, FALSE, "invalid_token")
           ELSE IF "read" \notin user.permissions
              THEN Answer(403, MsgNoPermission, TRUE, None)
           ELSE Answer(200, MsgOk, TRUE, "upload_history_accessed")
        /\ UNCHANGED <<now, jwtExpiresIn, activeSessions, nextUuid, issued,
                       loginsInFlight, authHits, revoked, overlapped, failCount,
                       failLog, loginOutcomes, uploadVars>>

MsgAccessDenied == "Access denied"
MsgDeleteFailed == "Failed to delete upload"
\* which of the handler's S3 calls rejects, if any
S3Outcomes == {"ok", "getObject", "deletePhoto", "deleteMetadata"}
\* a removal that deletes the metadata record only
RemoveUploadKeepsPhoto(bucket, metadataKey, s3Outcome) ==
    IF s3Outcome = "deletePhoto" THEN bucket
    ELSE IF s3Outcome = "deleteMetadata" THEN bucket
    ELSE MapDelete(bucket, metadataKey)
\* the two s3.deleteObject calls, in order: metadata.s3Key, then metadataKey;
\* a call that rejects ends the handler and leaves what was done before
RemoveUpload(bucket, metadataKey, s3Outcome) ==
    IF s3Outcome = "deletePhoto" THEN bucket
    ELSE IF s3Outcome = "deleteMetadata"
        THEN MapDelete(bucket, bucket[metadataKey].s3Key)
    ELSE MapDelete(MapDelete(bucket, bucket[metadataKey].s3Key), metadataKey)

\* DELETE /upload/:uploadId
Delete(ip, tok, uploadId, s3Outcome) ==
    LET user == tok.payload
        metadataKey == MetadataKey(user.organizationId, uploadId)
        Answer(status, message, valid, audit) ==
            resp' = Response("delete", ip, status, message, user.sessionId, {tok},
                             valid, audit, now)
        Body(status, success, message) ==
            ResponseBody(status, uploadId, [success |-> Str(success),
                                            message |-> Str(message)])
        Identity == [uploadId |-> Num(uploadId), userId |-> Str(user.userId),
                     username |-> Str(user.username)]
    IN  /\ IF ~AuthenticateToken(tok, now)
              THEN /\ Answer(403, MsgBadToken, FALSE, "invalid_token")
                   /\ UNCHANGED <<s3, produced>>
           ELSE IF "delete" \notin user.permissions /\ user.role # "admin"
              THEN /\ Answer(403, MsgNoDeletePermission, TRUE, "delete_permission_denied")
                   /\ produced' = produced \cup
                          {AuditEvent("warning", "delete_permission_denied", uploadId,
                                      Identity @@ [organizationId |->
                                                       Str(user.organizationId)]),
                           Body(403, "false", MsgNoDeletePermission)}
                   /\ UNCHANGED s3
           ELSE IF ~MapHas(s3, metadataKey) \/ s3Outcome = "getObject"
              THEN /\ Answer(404, MsgNotFound, TRUE, None)
                   /\ produced' = produced \cup {Body(404, "false", MsgNotFound)}
                   /\ UNCHANGED s3
           ELSE IF s3[metadataKey].organizationId # Str(user.organizationId)
              THEN /\ Answer(403, MsgAccessDenied, TRUE, "delete_organization_mismatch")
                   /\ produced' = produced \cup
                          {AuditEvent("warning", "delete_organization_mismatch", uploadId,
                                      Identity @@
                                      [requestedOrg |-> Str(user.organizationId),
                                       fileOrg |-> s3[metadataKey].organizationId]),
                           Body(403, "false", MsgAccessDenied)}
                   /\ UNCHANGED s3
           ELSE /\ s3' = RemoveUpload(s3, metadataKey, s3Outcome)
                /\ IF s3Outcome = "ok"
                   THEN /\ Answer(200, MsgDeleted, TRUE, "secure_upload_deleted")
                        /\ produced' = produced \cup
                               {AuditEvent("info", "secure_upload_deleted", uploadId,
                                           Identity @@
                                           [organizationId |-> Str(user.organizationId),
                                            deletedBy |-> Str(user.username),
                                            s3Key |-> s3[metadataKey].s3Key]),
                                Body(200, "true", MsgDeleted)}
                   ELSE /\ Answer(500, MsgDeleteFailed, TRUE, "delete_upload_error")
                        /\ produced' = produced \cup
                               {AuditEvent("error", "delete_upload_error", uploadId,
                                           Identity @@
                                           [organizationId |-> Str(user.organizationId),
                                            error |-> Str(s3Outcome)]),
                                Body(500, "false", MsgDeleteFailed)}
        /\ UNCHANGED <<now, jwtExpiresIn, activeSessions, nextUuid, issued,
                       loginsInFlight, authHits, revoked, overlapped, failCount,
                       failLog, loginOutcomes, uploadsInFlight, kmsCalls, encryptLog,
                       loggerVars, cryptoLog, cryptoExports, clientVars, kmsFailures, auditQueries>>

\* queryAuditLogs(filters): the query it builds; the results are always empty
QueryAuditLogs(filters) ==
    [query |-> [organizationId |-> filters.organizationId], results |-> {}]

\* GET /audit/logs; organizationId is req.query.organizationId, None when the
\* request has none
AuditLogs(ip, tok, organizationId) ==
    LET user == tok.payload
        Answer(status, message, valid, audit) ==
            resp' = Response("audit_logs", ip, status, message, user.sessionId, {tok},
                             valid, audit, now)
        filters == [organizationId |-> IF organizationId # None
                                       THEN organizationId ELSE user.organizationId]
    IN  /\ IF ~AuthenticateToken(tok, now)
              THEN /\ Answer(403, MsgBadToken, FALSE, "invalid_token")
                   /\ UNCHANGED auditQueries
           ELSE IF user.role # "admin"
              THEN /\ Answer(403, MsgNoAuditPermission, TRUE, "audit_access_denied")
                   /\ UNCHANGED auditQueries
           ELSE /\ auditQueries' = auditQueries \cup
                       {[caller |-> user.organizationId,
                         asked |-> organizationId,
                         answer |-> QueryAuditLogs(filters)]}
                /\ Answer(200, MsgOk, TRUE, "audit_logs_accessed")
        /\ UNCHANGED <<now, jwtExpiresIn, activeSessions, nextUuid, issued,
                       loginsInFlight, authHits, revoked, overlapped, failCount,
                       failLog, loginOutcomes, uploadsInFlight, s3, kmsCalls,
                       encryptLog, loggerVars, cryptoLog, cryptoExports, clientVars, kmsFailures, produced>>


(* ---------------- utils/auditLogger.js ---------------- *)
\* A name (a field key or an event type) is the sequence of its words:
\* sessionId is <<"session", "Id">>, login_failed is <<"login", "failed">>.
\* String.includes is the search for the words of the pattern in a row.
Lower(w) ==
    CASE w = "Id" -> "id" [] w = "Key" -> "key" [] w = "Token" -> "token"
      [] w = "IP" -> "ip" [] w = "Context" -> "context" [] w = "Agent" -> "agent"
      [] w = "Type" -> "type" [] w = "Patient" -> "patient" [] OTHER -> w
ToLowerCase(name) == [i \in 1..Len(name) |-> Lower(name[i])]
Includes(name, pattern) ==
    \E i \in 0..(Len(name) - Len(pattern)) :
        SubSeq(name, i + 1, i + Len(pattern)) = pattern
ToUpperCase(level) ==
    CASE level = "info" -> "INFO" [] level = "warn" -> "WARN"
      [] level = "error" -> "ERROR" [] level = "warning" -> "WARNING"
      [] OTHER -> level

\* values: strings, numbers, nested objects, and a value JSON.stringify
\* cannot serialise
Obj(fields) == [obj |-> fields]
Bool(b) == [bool |-> b]
Unserializable == [bigint |-> 1]
Undefined == "undefined"
\* an event type that is not a string
UndefinedName == <<Undefined>>
IsObject(v) == "obj" \in DOMAIN v
Truthy(v) == v # Str("") /\ v # Num(0)
Redacted == Str("[REDACTED]")
Has(o, name) == name \in DOMAIN o
Without(o, name) == [k \in DOMAIN o \ {name} |-> o[k]]
\* { ...a, ...b }
Spread(a, b) == [k \in DOMAIN a \cup DOMAIN b |-> IF k \in DOMAIN b THEN b[k] ELSE a[k]]

\* process.env.AUDIT_SALT; not set unless the deployment sets it
AUDIT_SALT == Undefined
\* hashSensitiveData: sha256 over `data + AUDIT_SALT || default`, as hex, cut
\* to the first 16 of its 64 characters
HashSensitiveData(data) ==
    LET concatenated == <<data, AUDIT_SALT>>
        hexLength == 64
    IN  [sha256 |-> IF concatenated = <<"", "">> THEN <<"default-audit-salt">>
                    ELSE concatenated,
         hexLength |-> IF hexLength < 16 THEN hexLength ELSE 16]

sensitiveFields == {<<"password">>, <<"token">>, <<"secret">>, <<"key">>,
                    <<"authorization">>, <<"cookie">>, <<"session">>, <<"csrf">>}
IsSensitive(key) == \E field \in sensitiveFields : Includes(ToLowerCase(key), field)
\* a sanitizer that does not go into nested objects
SanitizeTopLevel(obj) ==
    [key \in DOMAIN obj |-> IF IsSensitive(key) THEN Redacted ELSE obj[key]]
\* sanitizeAuditEntry / sanitizeObject
RECURSIVE SanitizeObject(_)
SanitizeObject(obj) ==
    [key \in DOMAIN obj |->
        IF IsSensitive(key) THEN Redacted
        ELSE IF IsObject(obj[key]) THEN Obj(SanitizeObject(obj[key].obj))
        ELSE obj[key]]

RECURSIVE Serializable(_)
Serializable(obj) ==
    \A key \in DOMAIN obj :
        /\ obj[key] # Unserializable
        /\ IsObject(obj[key]) => Serializable(obj[key].obj)

highSeverityEvents == {<<"intrusion", "detected">>, <<"unauthorized", "access">>,
                       <<"data", "breach">>, <<"system", "compromise">>,
                       <<"privilege", "escalation">>}
mediumSeverityEvents == {<<"login", "failed">>, <<"access", "denied">>,
                         <<"configuration", "changed">>,
                         <<"encryption", "key", "rotated">>}
DetermineSeverity(eventType) ==
    IF \E event \in highSeverityEvents : Includes(eventType, event) THEN "HIGH"
    ELSE IF \E event \in mediumSeverityEvents : Includes(eventType, event) THEN "MEDIUM"
    ELSE "LOW"
criticalEvents == {<<"intrusion", "detected">>, <<"data", "breach">>,
                   <<"system", "compromise">>, <<"unauthorized", "phi", "access">>,
                   <<"multiple", "login", "failures">>}
RequiresImmediateResponse(eventType) ==
    \E event \in criticalEvents : Includes(eventType, event)

\* the entry logSecurityEvent writes to the security alerts log
SecurityEvent(auditEntry) ==
    Spread(auditEntry,
           (<<"severity">> :> Str(DetermineSeverity(auditEntry[<<"event", "Type">>].name)))
        @@ (<<"requires", "Response">> :>
                Bool(RequiresImmediateResponse(auditEntry[<<"event", "Type">>].name))))

\* crypto.randomUUID(): a value never returned before
RandomUUID(n) == [id |-> n + 1]

\* the sessionContext and networkContext blocks
AddSessionContext(entry, eventData) ==
    IF Has(eventData, <<"req">>) /\ IsObject(eventData[<<"req">>])
          /\ Has(eventData[<<"req">>].obj, <<"user">>)
    THEN LET user == eventData[<<"req">>].obj[<<"user">>].obj
         IN  Without(Spread(entry, <<"session", "Context">> :> Obj(user)), <<"req">>)
    ELSE entry
AddNetworkContext(entry, eventData) ==
    IF Has(eventData, <<"client", "IP">>) /\ Truthy(eventData[<<"client", "IP">>])
    THEN Spread(entry, <<"network", "Context">> :>
             Obj((<<"client", "IP">> :> eventData[<<"client", "IP">>])
              @@ (<<"user", "Agent">> :>
                     IF Has(eventData, <<"user", "Agent">>)
                           /\ Truthy(eventData[<<"user", "Agent">>])
                     THEN eventData[<<"user", "Agent">>] ELSE Str("unknown"))))
    ELSE entry
\* hashing that leaves the unhashed patient id in the entry
HashPatientIdKeepsRaw(entry) ==
    IF Has(entry, <<"patient", "Id">>) /\ Truthy(entry[<<"patient", "Id">>])
    THEN Spread(entry, <<"hashed", "Patient", "Id">> :>
                           HashSensitiveData(entry[<<"patient", "Id">>].str))
    ELSE entry
\* the `if (auditEntry.patientId)` block
HashPatientId(entry) ==
    IF Has(entry, <<"patient", "Id">>) /\ Truthy(entry[<<"patient", "Id">>])
    THEN Without(Spread(entry, <<"hashed", "Patient", "Id">> :>
                                   HashSensitiveData(entry[<<"patient", "Id">>].str)),
                 <<"patient", "Id">>)
    ELSE entry

\* the outcome of one call: what it returned, whether it raised into its
\* caller, and what went to the audit log, the security alerts log and the
\* fallback console logger
LogOutcome(returned, raised, audit, security, fallback) ==
    [returned |-> returned, raised |-> raised, audit |-> audit,
     security |-> security, fallback |-> fallback]
FallbackEntry(eventType, message) ==
    (<<"original", "Event">> :> [name |-> eventType]) @@ (<<"error">> :> Str(message))

\* the try block of log(): `thrown` is the message of the error it threw, None
\* when it ran to its return
LogTry(n, level, eventType, eventData, sinkOk) ==
    LET eventId == RandomUUID(n)
        Thrown(message, audit) ==
            [thrown |-> message, returned |-> eventId, audit |-> audit, security |-> << >>]
        Returned(audit, security) ==
            [thrown |-> None, returned |-> eventId, audit |-> audit, security |-> security]
    IN  IF level = Undefined THEN Thrown("level.toUpperCase is not a function", << >>)
        ELSE
        LET auditEntry ==
                SanitizeObject(HashPatientId(AddNetworkContext(AddSessionContext(
                    Spread((<<"event", "Id">> :> eventId)
                        @@ (<<"event", "Type">> :> [name |-> eventType])
                        @@ (<<"level">> :> Str(ToUpperCase(level)))
                        @@ (<<"timestamp">> :> Num(now))
                        @@ (<<"source">> :> Str("hipaa-photo-collector-api")),
                           eventData),
                    eventData), eventData)))
        IN  IF ~Serializable(auditEntry)
               THEN Thrown("Do not know how to serialize a BigInt", << >>)
            ELSE IF ~sinkOk THEN Thrown("write failed", << >>)
            ELSE IF level \notin {"error", "warn"} /\ eventType = UndefinedName
               THEN Thrown("eventType.includes is not a function", <<auditEntry>>)
            ELSE IF level \in {"error", "warn"}
                    \/ Includes(eventType, <<"security">>)
                    \/ Includes(eventType, <<"intrusion">>)
               THEN IF auditEntry[<<"event", "Type">>].name = UndefinedName
                    THEN Thrown("eventType.includes is not a function", <<auditEntry>>)
                    ELSE Returned(<<auditEntry>>, <<SecurityEvent(auditEntry)>>)
            ELSE Returned(<<auditEntry>>, << >>)

\* log() without its try / catch
LogUnguarded(n, level, eventType, eventData, sinkOk) ==
    LET t == LogTry(n, level, eventType, eventData, sinkOk)
    IN  IF t.thrown = None
        THEN LogOutcome(t.returned, FALSE, t.audit, t.security, << >>)
        ELSE LogOutcome([undefined |-> TRUE], TRUE, t.audit, t.security, << >>)
\* log(level, eventType, eventData): the catch block reports the failure on a
\* console logger and falls off the end of the function
Log(n, level, eventType, eventData, sinkOk) ==
    LET t == LogTry(n, level, eventType, eventData, sinkOk)
    IN  IF t.thrown = None
        THEN LogOutcome(t.returned, FALSE, t.audit, t.security, << >>)
        ELSE LogOutcome([undefined |-> TRUE], FALSE, t.audit, t.security,
                        <<FallbackEntry(eventType, t.thrown)>>)

\* the calls made to the logger
Levels == {"info", "warn", "error", "warning", Undefined}
EventTypes == {<<"test", "event">>, <<"unauthorized", "access">>,
               <<"intrusion", "detected">>, <<"security", "scan">>, UndefinedName}
DataPatient ==
    (<<"patient", "Id">> :> Str("P1")) @@ (<<"password">> :> Str("hunter2"))
        @@ (<<"username">> :> Str("demo"))
DataNested ==
    (<<"client", "IP">> :> Str("ip1"))
        @@ (<<"details">> :>
               Obj((<<"api", "Key">> :> Str("k1")) @@ (<<"note">> :> Str("P1"))
                   @@ (<<"inner">> :> Obj(<<"auth", "Token">> :> Str("t1")))))
DataRequest ==
    <<"req">> :> Obj(<<"user">> :>
        Obj((<<"user", "Id">> :> Str("user_001")) @@ (<<"username">> :> Str("demo"))
            @@ (<<"organization", "Id">> :> Str("org_healthcare_001"))
            @@ (<<"session", "Id">> :> Str("s1"))))
DataBigInt == (<<"patient", "Id">> :> Str("P2")) @@ (<<"count">> :> Unserializable)
EventDatas == {DataPatient, DataNested, DataRequest, DataBigInt}

\* one call of auditLogger.log; sinkOk is whether the winston logger takes
\* the entry or throws
LogCall(level, eventType, eventData, sinkOk) ==
    /\ Len(logCalls) < MaxLogCalls
    /\ LET out == Log(Len(logCalls), level, eventType, eventData, sinkOk)
       IN  /\ auditLog' = auditLog \o out.audit
           /\ securityLog' = securityLog \o out.security
           /\ fallbackLog' = fallbackLog \o out.fallback
           /\ logCalls' = Append(logCalls,
                  [level |-> level, eventType |-> [name |-> eventType],
                   eventData |-> eventData, sinkOk |-> sinkOk,
                   eventId |-> RandomUUID(Len(logCalls)),
                   returned |-> out.returned, raised |-> out.raised])
    /\ UNCHANGED <<now, jwtExpiresIn, activeSessions, nextUuid, issued,
                   loginsInFlight, authHits, resp, revoked, overlapped, failCount,
                   failLog, loginOutcomes, uploadsInFlight, s3, kmsCalls,
                   encryptLog, cryptoExports, clientVars, kmsFailures, produced, auditQueries,
                   cryptoLog>>


(* ---------------- timers and the clock ---------------- *)
\* a sweep that removes every session it finds
CleanupAllSessions ==
    /\ activeSessions # << >>
    /\ activeSessions' = << >>
    /\ UNCHANGED <<now, jwtExpiresIn, nextUuid, issued, loginsInFlight, authHits,
                   resp, revoked, overlapped, failCount, failLog,
                   loginOutcomes, uploadVars>>
\* setInterval(cleanupExpiredSessions, 15 min)
CleanupExpiredSessions ==
    LET expiredSessions == {s \in DOMAIN activeSessions :
                               SessionExpired(activeSessions[s], now)}
    IN  /\ expiredSessions # {}
        /\ activeSessions' = [s \in DOMAIN activeSessions \ expiredSessions |->
                                 activeSessions[s]]
        /\ UNCHANGED <<now, jwtExpiresIn, nextUuid, issued, loginsInFlight, authHits,
                       resp, revoked, overlapped, failCount, failLog, loginOutcomes,
                       uploadVars>>

Tick ==
    /\ now < MaxTime
    /\ now' = now + 1
    /\ UNCHANGED <<jwtExpiresIn, activeSessions, nextUuid, issued, loginsInFlight,
                   authHits, resp, revoked, overlapped, failCount, failLog,
                   loginOutcomes, uploadVars>>

(* ---------------- specifications ---------------- *)
InFlight == BagCardinality(loginsInFlight)

\* session life cycle: few requests, the clock runs
SessionBudget(ip) == authHits[ip] < MaxAuthFailures
LoginBudget(ip) ==
    /\ SessionBudget(ip)
    /\ InFlight < MaxInFlight
    /\ nextUuid + InFlight < MaxSessions

Next ==
    \/ \E ip \in SessionClients, u \in Usernames, p \in Passwords :
           LoginBudget(ip) /\ LoginBegin(ip, u, p)
    \/ \E r \in BagToSet(loginsInFlight) : LoginFinish(r)
    \/ \E ip \in SessionClients, tok \in PresentableTokens :
           SessionBudget(ip) /\ Logout(ip, tok)
    \/ \E ip \in SessionClients, tok \in PresentableTokens :
           SessionBudget(ip) /\ Verify(ip, tok)
    \/ CleanupExpiredSessions
    \/ Tick

Spec == Init /\ [][Next]_vars

\* expiry, the sweep and logout: the operator logs in with the right
\* password, verifies and logs out while the clock runs
NextExpiry ==
    \/ \E ip \in SessionClients : LoginBudget(ip) /\ LoginBegin(ip, "demo", "good")
    \/ \E r \in BagToSet(loginsInFlight) : LoginFinish(r)
    \/ \E ip \in SessionClients, tok \in IssuedTokens :
           SessionBudget(ip) /\ Logout(ip, tok)
    \/ \E ip \in SessionClients, tok \in IssuedTokens :
           SessionBudget(ip) /\ Verify(ip, tok)
    \/ CleanupExpiredSessions
    \/ Tick

SpecExpiry == Init /\ [][NextExpiry]_vars

\* the authentication limiter: many logins inside one window.  The clock
\* stands, so the window (windowMs) does not run out and no hit is forgotten.
LimiterBudget(ip) ==
    /\ authHits[ip] < MaxLimiterRequests
    /\ InFlight < MaxLimiterInFlight
\* at most MaxSessions of the suspended logins are let through to a session
FinishBudget(r) ==
    CredentialsValid(r.username, r.password) => nextUuid < MaxSessions

NextLimiter ==
    \/ \E ip \in ClientIPs, u \in Usernames, p \in Passwords :
           /\ LimiterBudget(ip)
           /\ ip \notin SessionClients => u \notin DOMAIN users
           /\ LoginBegin(ip, u, p)
    \/ \E r \in BagToSet(loginsInFlight) : FinishBudget(r) /\ LoginFinish(r)

SpecLimiter == Init /\ [][NextLimiter]_vars

\* the protected routes: one operator logs in and out, uploads run side by side
\* at most MaxUploads upload requests get as far as drawing an upload id
UploadBudget == nextUuid - Len(issued) < MaxUploads

\* at most MaxUploadLogins logins of the operator
UploadLoginBudget(ip) ==
    /\ SessionBudget(ip)
    /\ InFlight < MaxInFlight
    /\ Len(issued) + InFlight < MaxUploadLogins

NextUpload ==
    \/ \E ip \in SessionClients :
           UploadLoginBudget(ip) /\ LoginBegin(ip, "demo", "good")
    \/ \E r \in BagToSet(loginsInFlight) : LoginFinish(r)
    \/ \E ip \in SessionClients, tok \in IssuedTokens : Logout(ip, tok)
    \/ \E ip \in SessionClients, tok \in PresentableTokens,
          f \in FileNames, org \in OrganizationIds :
           UploadBudget /\ UploadBegin(ip, tok, f, org)
    \/ \E u \in uploadsInFlight : KmsRespond(u)
    \/ \E u \in uploadsInFlight : KmsFail(u)
    \/ \E ip \in SessionClients, tok \in PresentableTokens : History(ip, tok)
    \/ \E ip \in SessionClients, tok \in PresentableTokens, id \in 1..MaxSessions :
           Delete(ip, tok, id, "ok")
    \/ \E ip \in SessionClients, tok \in PresentableTokens,
          org \in OrganizationIds \cup {None} : AuditLogs(ip, tok, org)

SpecUpload == Init /\ [][NextUpload]_vars

\* secure upload through to the bucket.  On node encryption.encrypt throws
\* and no upload gets as far as s3.upload; the lines of the handler after the
\* encrypt call run only where the crypto module has createCipherGCM, so this
\* specification starts from either kind of crypto module.
InitStore ==
    /\ InitCommon
    /\ cryptoExports \in {CryptoExports, CryptoExportsWithGCM}
    /\ platform = PlatformBrowser

\* one operator session; at most MaxUploads upload requests
StoreLoginBudget == nextUuid = 0 /\ InFlight = 0
StoreBudget == nextUuid - Len(issued) < MaxUploads

NextStore ==
    \/ \E ip \in SessionClients :
           StoreLoginBudget /\ LoginBegin(ip, "demo", "good")
    \/ \E r \in BagToSet(loginsInFlight) : LoginFinish(r)
    \/ \E ip \in SessionClients, tok \in IssuedTokens,
          f \in FileNames, org \in OrganizationIds :
           StoreBudget /\ UploadBegin(ip, tok, f, org)
    \/ \E u \in uploadsInFlight : KmsRespond(u)
    \/ \E u \in uploadsInFlight : KmsFail(u)
    \/ \E u \in uploadsInFlight : S3PhotoStored(u)
    \/ \E u \in uploadsInFlight : S3Fail(u)
    \/ \E u \in uploadsInFlight : S3MetadataStored(u)

SpecStore == InitStore /\ [][NextStore]_vars


\* the audit logger on its own: calls of log() with every level, event type
\* and field set below, the sink taking the entry or throwing
NextAudit ==
    \E level \in Levels, eventType \in EventTypes, eventData \in EventDatas,
       sinkOk \in BOOLEAN : LogCall(level, eventType, eventData, sinkOk)

SpecAudit == Init /\ [][NextAudit]_vars

\* the audit query.  The shipped user table has no account with role
\* 'admin'; the query is followed for the token the login route signs for
\* such an account once the table holds one, next to the tokens of demo.
adminAccount ==
    [id |-> "user_002", username |-> "admin",
     organizationId |-> "org_healthcare_001", role |-> "admin",
     permissions |-> {"read", "write", "upload", "delete"}, isActive |-> TRUE]
AdminTokens == {JwtSign(TokenPayload(adminAccount, 0, 0, jwtExpiresIn), JwtSecret)}

NextQuery ==
    \/ \E ip \in SessionClients, p \in Passwords :
           LoginBudget(ip) /\ LoginBegin(ip, "demo", p)
    \/ \E r \in BagToSet(loginsInFlight) : LoginFinish(r)
    \/ \E ip \in SessionClients, tok \in IssuedTokens \cup AdminTokens,
          org \in OrganizationIds \cup {None} : AuditLogs(ip, tok, org)

SpecQuery == Init /\ [][NextQuery]_vars

\* deletion of stored uploads.  No account of the shipped user table may
\* delete (demo is answered 403, see NextUpload); the route is followed for
\* the token of an account that may.  At most MaxDeletes delete requests are
\* answered.
DeleteResponses ==
    {r \in produced : r.kind = "response" /\
        r.fields.message \in {Str(MsgNoDeletePermission), Str(MsgNotFound),
                              Str(MsgAccessDenied), Str(MsgDeleted),
                              Str(MsgDeleteFailed)}}
DeleteBudget == Cardinality(DeleteResponses) < MaxDeletes
\* the ids that uploads draw after the one login has drawn its session id
DeleteIds == 2..(MaxUploads + 1)

NextDelete ==
    \/ \E ip \in SessionClients :
           StoreLoginBudget /\ LoginBegin(ip, "demo", "good")
    \/ \E r \in BagToSet(loginsInFlight) : LoginFinish(r)
    \/ \E ip \in SessionClients, tok \in IssuedTokens, f \in FileNames :
           StoreBudget /\ UploadBegin(ip, tok, f, tok.payload.organizationId)
    \/ \E u \in uploadsInFlight : KmsRespond(u)
    \/ \E u \in uploadsInFlight : S3PhotoStored(u)
    \/ \E u \in uploadsInFlight : S3MetadataStored(u)
    \/ \E ip \in SessionClients, tok \in AdminTokens,
          id \in DeleteIds, outcome \in S3Outcomes :
           DeleteBudget /\ Delete(ip, tok, id, outcome)

SpecDelete == InitStore /\ [][NextDelete]_vars
\* encrypt and decrypt on their own, on either kind of crypto module
NextCrypto ==
    \/ \E p \in Plaintexts, k \in CryptoKeys, ad \in AssociatedData :
           EncryptCall(p, k, ad)
    \/ \E i \in 1..MaxCryptoCalls, k \in CryptoKeys, ad \in AssociatedData :
           DecryptCall(i, k, ad)

SpecCrypto == InitStore /\ [][NextCrypto]_vars
\* decrypt on its own, given valid and tampered records
NextDecrypt ==
    \E sealedWith \in AssociatedData, part \in TamperedParts \cup {None},
       k \in CryptoKeys, ad \in AssociatedData :
        DecryptSealedCall(sealedWith, part, k, ad)

SpecDecrypt == InitStore /\ [][NextDecrypt]_vars
\* encryptPHI and decryptPHI on their own
NextPhi ==
    \/ \E d \in PhiDatas, k \in CryptoKeys, t \in Timestamps : EncryptPHICall(d, k, t)
    \/ \E d \in PhiDatas, inner \in Timestamps, bound \in Timestamps,
          change \in EnvelopeChanges, k \in PhiKeys :
           DecryptPHICall(d, inner, bound, change, k)

SpecPhi == InitStore /\ [][NextPhi]_vars
\* hash and verifyHash on their own
NextHash ==
    \E data \in HashDatas, salt \in Salts, r1 \in RandomOutcomes,
       r2 \in RandomOutcomes, other \in HashDatas :
        HashCall(data, salt, r1, r2, other)

SpecHash == InitStore /\ [][NextHash]_vars


(* ---------------- deploy/sw.js: the offline upload queue ---------------- *)
serverVars == <<now, jwtExpiresIn, activeSessions, nextUuid, issued,
                loginsInFlight, authHits, resp, revoked, overlapped, failCount,
                failLog, loginOutcomes, uploadsInFlight, s3, kmsCalls,
                encryptLog, cryptoExports, kmsFailures, produced, auditQueries,
                loggerVars, cryptoLog>>

\* the requests to the bucket's host the fetch handler may be given
S3Requests == {[method |-> "PUT", body |-> "photo"],
               [method |-> "POST", body |-> None],
               [method |-> "GET", body |-> None]}
\* `upload.retryCount < 3` in processQueuedUploads
RetryLimit == 3
\* the status of the response handleS3Request makes up for a queued upload
StatusQueued == 202
\* request.arrayBuffer() in queueUpload, called after fetch(request) failed
BodyReadable(request) == platform = PlatformPromised \/ request.body = None

RECURSIVE SortedKeys(_)
SortedKeys(S) ==
    IF S = {} THEN << >>
    ELSE LET least == CHOOSE x \in S : \A y \in S : x <= y
         IN  <<least>> \o SortedKeys(S \ {least})
\* store.getAll(): the records of the store in key order
GetAll ==
    LET keys == SortedKeys(DOMAIN uploads)
    IN  [i \in 1..Len(keys) |-> uploads[keys[i]]]

\* The messages sw.js posts carry a type and a fixed text only; the model
\* adds the key of the upload they are about, which the properties use.
\* handleS3Request with queueUpload.  A failed fetch of a PUT or POST is
\* answered 202 "queued" whether or not queueUpload stored anything: its
\* catch block only logs.
HandleS3Request(request) ==
    /\ Len(handled) < MaxQueued
    /\ LET n == Len(handled) + 1
           key == Len(fetchLog) + 1
       IN  IF online
           THEN /\ handled' = Append(handled, [request |-> request, status |-> 200,
                                               key |-> 0])
                /\ UNCHANGED <<uploads, fetchLog, clientMessages>>
           ELSE IF request.method \in {"PUT", "POST"}
           THEN IF BodyReadable(request)
                THEN /\ uploads' = MapSet(uploads, key,
                                      [id |-> key, request |-> n, retryCount |-> 0])
                     /\ fetchLog' = Append(fetchLog, << >>)
                     /\ clientMessages' = clientMessages \cup
                                          {[type |-> "UPLOAD_QUEUED", id |-> key]}
                     /\ handled' = Append(handled, [request |-> request,
                                                    status |-> StatusQueued,
                                                    key |-> key])
                ELSE /\ handled' = Append(handled, [request |-> request,
                                                    status |-> StatusQueued,
                                                    key |-> 0])
                     /\ UNCHANGED <<uploads, fetchLog, clientMessages>>
           \* `throw error`: the request fails as it would without the worker
           ELSE /\ handled' = Append(handled, [request |-> request, status |-> 0,
                                               key |-> 0])
                /\ UNCHANGED <<uploads, fetchLog, clientMessages>>
    /\ UNCHANGED <<serverVars, pageVars, platform, online, runs, processRuns>>

\* processQueuedUploads up to its first fetch: `await store.getAll()` and the
\* head of the for-of loop.  In a browser the awaited value is the IDBRequest,
\* which is not iterable: the loop throws and the outer catch logs.
StartProcessing(trigger) ==
    /\ IF platform = PlatformBrowser \/ DOMAIN uploads = {}
       THEN UNCHANGED <<runs, processRuns>>
       ELSE /\ processRuns < MaxRuns
            /\ Cardinality(runs) < MaxConcurrentRuns
            /\ processRuns' = processRuns + 1
            /\ runs' = runs \cup {[run |-> processRuns + 1, trigger |-> trigger,
                                    uploads |-> GetAll, i |-> 1]}
    /\ UNCHANGED <<serverVars, pageVars, platform, uploads, fetchLog,
                   clientMessages, handled>>

\* self.addEventListener('online', ...): the connection is restored
OnlineEvent == ~online /\ online' = TRUE /\ StartProcessing("online")
\* self.addEventListener('message', ...) with type PROCESS_QUEUE
ProcessQueueMessage == StartProcessing("message") /\ UNCHANGED online
\* self.addEventListener('sync', ...) with tag upload-queue
SyncEvent == StartProcessing("sync") /\ UNCHANGED online
\* the connection is lost
GoOffline ==
    /\ online
    /\ online' = FALSE
    /\ UNCHANGED <<serverVars, pageVars, platform, uploads, runs, processRuns,
                   fetchLog, clientMessages, handled>>

\* what a fetch of queue processing may come to: response.ok, a response
\* that is not ok, or a rejection
FetchOutcomes == {"ok", "errorResponse", "networkError"}
\* a failed attempt of an error response: kept below the limit, else dropped
KeepAfterErrorResponse(upload) == upload.retryCount < RetryLimit
\* a failed attempt of a network error: the inner catch block has no limit
KeepAfterNetworkError(upload) == TRUE
\* one turn of the loop of processQueuedUploads: the pending fetch settles,
\* the store is updated from the run's own copy of the record, and the fetch
\* of the next record of the run's snapshot is issued
FetchSettles(r, outcome) ==
    /\ r \in runs
    /\ outcome \in (IF online THEN {"ok", "errorResponse"} ELSE {"networkError"})
    /\ LET upload == r.uploads[r.i]
           retried == [upload EXCEPT !.retryCount = @ + 1]
           keep == CASE outcome = "ok" -> FALSE
                     [] outcome = "errorResponse" -> KeepAfterErrorResponse(retried)
                     [] OTHER -> KeepAfterNetworkError(retried)
           posted == CASE outcome = "ok" ->
                              {[type |-> "UPLOAD_COMPLETED", id |-> upload.id]}
                        [] outcome = "errorResponse" /\ ~keep ->
                              {[type |-> "UPLOAD_FAILED", id |-> upload.id]}
                        [] OTHER -> {}
       IN  /\ fetchLog' = [fetchLog EXCEPT ![upload.id] = Append(@, outcome)]
           /\ uploads' = IF keep THEN MapSet(uploads, upload.id, retried)
                         ELSE MapDelete(uploads, upload.id)
           /\ clientMessages' = clientMessages \cup posted
           /\ runs' = (runs \ {r}) \cup
                      (IF r.i < Len(r.uploads) THEN {[r EXCEPT !.i = @ + 1]} ELSE {})
    /\ UNCHANGED <<serverVars, pageVars, platform, online, processRuns, handled>>

InitWorker ==
    /\ InitCommon
    /\ jwtExpiresIn = JwtExpiresInDefault
    /\ cryptoExports = CryptoExports
    /\ platform \in {PlatformBrowser, PlatformPromised}
NextWorker ==
    \/ \E request \in S3Requests : HandleS3Request(request)
    \/ GoOffline
    \/ OnlineEvent
    \/ ProcessQueueMessage
    \/ SyncEvent
    \/ \E r \in runs, outcome \in FetchOutcomes : FetchSettles(r, outcome)
SpecWorker == InitWorker /\ [][NextWorker]_vars
\* a pending fetch settles, and a lost connection comes back
SpecWorkerFair ==
    /\ SpecWorker
    /\ WF_vars(\E r \in runs, outcome \in FetchOutcomes : FetchSettles(r, outcome))
    /\ WF_vars(OnlineEvent)


(* ---------------- script.js: the uploader of the page ---------------- *)
\* this.maxRetries
MaxRetries == 3
\* noRetryErrors in shouldRetry
NoRetryErrors == {"InvalidAccessKeyId", "SignatureDoesNotMatch", "AccessDenied",
                  "NoSuchBucket"}
\* shouldRetry(error), given error.code (None when the error has no code)
ShouldRetry(code) == code \notin NoRetryErrors
\* what s3.headBucket in initializeS3 may come to.  Forbidden is S3's answer
\* to bad credentials or missing permission, NotFound to a missing bucket.
HeadBucketOutcomes == {"ok", "Forbidden", "NotFound", "NetworkError"}
\* what upload.promise() may come to
UploadOutcomes == {"ok", "NetworkError", "RequestTimeout"} \cup NoRetryErrors
\* initializeS3 rethrows whatever went wrong as
\* new Error(`Failed to initialize S3: ...`), which has no code
InitializeS3Error(outcome) == None
\* what the user has prepared when pressing the button
UploadInputs == {"ready", "noImage", "badConfig"}
\* the condition of the finally block of attemptUpload,
\* `this.retryCount >= this.maxRetries || !this.shouldRetry()`.  shouldRetry
\* is called without its argument and reads error.code of undefined: when the
\* first operand is false the block throws a TypeError and its body is
\* skipped; the body runs exactly when the first operand is true.
FinallyResets(count) == count >= MaxRetries

Chains == {x.upload : x \in attempts \cup retryTimers}
\* the causes the spec and getUploadErrorMessage name as not worth a retry:
\* bad credentials, bad signature, denied access, missing bucket
NoRetryCauses == NoRetryErrors \cup {"Forbidden", "NotFound"}
RecordAttempt(u, cause, result) ==
    [uploadLog EXCEPT ![u].denied = @ \/ cause \in NoRetryCauses,
                      ![u].result = result]

\* the sequel of attemptUpload once its try block is left for attempt a:
\* cause "ok" for the normal end, else the catch block with the error's code
AttemptEnds(a, cause, code) ==
    LET retry == cause # "ok" /\ ShouldRetry(code) /\ retryCount < MaxRetries
        count == CASE cause = "ok" -> 0
                   [] retry -> retryCount + 1
                   [] OTHER -> retryCount
    IN  /\ retryCount' = count
        /\ shownMessage' = CASE cause = "ok" -> "success"
                             [] retry -> "retrying"
                             [] OTHER -> "failed"
        /\ retryTimers' = IF retry
                          THEN retryTimers \cup {[upload |-> a.upload, n |-> a.n + 1]}
                          ELSE retryTimers
        /\ uploadLog' = RecordAttempt(a.upload, cause,
                                   CASE cause = "ok" -> "success"
                                     [] retry -> "pending"
                                     [] OTHER -> "failed")
        /\ attempts' = attempts \ {a}
        /\ IF FinallyResets(count)
           THEN isUploading' = FALSE /\ uploadBtnDisabled' = FALSE
           ELSE UNCHANGED <<isUploading, uploadBtnDisabled>>

\* attemptUpload up to `await this.initializeS3()`, for attempt n of upload u
AttemptUpload(u, n) ==
    /\ shownMessage' = "uploading"
    /\ attempts' = attempts \cup {[upload |-> u, n |-> n, phase |-> "headBucket"]}
    /\ uploadLog' = IF u \in DOMAIN uploadLog
                    THEN [uploadLog EXCEPT ![u].started = n]
                    ELSE Append(uploadLog, [started |-> n, denied |-> FALSE,
                                            result |-> "pending"])

\* a press of the upload button: uploadToS3.  A disabled button sends no click.
UploadToS3(input) ==
    /\ ~uploadBtnDisabled
    /\ IF isUploading
       THEN /\ shownMessage' = "already_in_progress"
            /\ UNCHANGED <<isUploading, retryCount, attempts, uploadLog>>
       ELSE IF ~online
       THEN /\ shownMessage' = "no_connection"
            /\ UNCHANGED <<isUploading, retryCount, attempts, uploadLog>>
       ELSE IF input # "ready"
       THEN /\ shownMessage' = input
            /\ UNCHANGED <<isUploading, retryCount, attempts, uploadLog>>
       ELSE /\ Len(uploadLog) < MaxPageUploads
            /\ isUploading' = TRUE
            /\ retryCount' = 0
            /\ AttemptUpload(Len(uploadLog) + 1, 1)
    /\ UNCHANGED <<serverVars, workerVars, uploadBtnDisabled, retryTimers>>

\* the headBucket call of initializeS3 settles
HeadBucketSettles(a, outcome) ==
    /\ a \in attempts
    /\ a.phase = "headBucket"
    /\ outcome \in (IF online THEN HeadBucketOutcomes ELSE {"NetworkError"})
    /\ IF outcome = "ok"
       THEN /\ uploadBtnDisabled' = TRUE
            /\ attempts' = (attempts \ {a}) \cup {[a EXCEPT !.phase = "upload"]}
            /\ UNCHANGED <<isUploading, retryCount, shownMessage, retryTimers,
                           uploadLog>>
       ELSE AttemptEnds(a, outcome, InitializeS3Error(outcome))
    /\ UNCHANGED <<serverVars, workerVars>>

\* upload.promise() settles
UploadSettles(a, outcome) ==
    /\ a \in attempts
    /\ a.phase = "upload"
    /\ outcome \in (IF online THEN UploadOutcomes ELSE {"NetworkError"})
    /\ AttemptEnds(a, outcome, outcome)
    /\ UNCHANGED <<serverVars, workerVars>>

\* the callback of setTimeout(() => this.attemptUpload(), 3000)
RetryTimerFires(t) ==
    /\ t \in retryTimers
    /\ retryTimers' = retryTimers \ {t}
    /\ AttemptUpload(t.upload, t.n)
    /\ UNCHANGED <<serverVars, workerVars, isUploading, retryCount,
                   uploadBtnDisabled>>

\* the connection comes back, seen from the page (navigator.onLine)
GoOnline ==
    /\ ~online
    /\ online' = TRUE
    /\ UNCHANGED <<serverVars, pageVars, platform, uploads, runs, processRuns,
                   fetchLog, clientMessages, handled>>

NextUploader ==
    \/ \E input \in UploadInputs : UploadToS3(input)
    \/ \E a \in attempts, outcome \in HeadBucketOutcomes : HeadBucketSettles(a, outcome)
    \/ \E a \in attempts, outcome \in UploadOutcomes : UploadSettles(a, outcome)
    \/ \E t \in retryTimers : RetryTimerFires(t)
    \/ GoOffline
    \/ GoOnline
\* the page in a browser, before the first press of the button
InitUploader == Init /\ jwtExpiresIn = JwtExpiresInDefault
SpecUploader == InitUploader /\ [][NextUploader]_vars
\* a pending request settles and a due timer fires
SpecUploaderFair ==
    /\ SpecUploader
    /\ WF_vars(\E a \in attempts, outcome \in HeadBucketOutcomes :
                   HeadBucketSettles(a, outcome))
    /\ WF_vars(\E a \in attempts, outcome \in UploadOutcomes : UploadSettles(a, outcome))
    /\ WF_vars(\E t \in retryTimers : RetryTimerFires(t))


(* ---------------- properties ---------------- *)
IssuedEntries == {issued[i] : i \in 1..Len(issued)}
EntryOf(sid) == CHOOSE e \in IssuedEntries : e.token.payload.sessionId = sid
\* the last response answers a verify that presented a token a login issued
\* and that the limiter let through
VerifiedGenuine ==
    /\ resp.op = "verify"
    /\ resp.token # {}
    /\ resp.token \subseteq IssuedTokens
    /\ resp.status # 429

\* C1: once the logout of a session has completed, no verify of a token of
\* that session succeeds: each is answered 401 "Session expired" or 403
\* "Invalid or expired token" (or turned away by the limiter).
C1_RevokedNeverVerifies ==
    (resp.op = "verify" /\ resp.sid \in revoked) =>
        /\ resp.status \in {401, 403, 429}
        /\ resp.message \in {MsgSessionExpired, MsgBadToken, MsgLimiter}
\* a verify of a still unexpired token is refused because its session was revoked
C1_Witness ==
    /\ VerifiedGenuine
    /\ resp.sid \in revoked
    /\ ~JwtExpired(TokenOf(resp), resp.at)
    /\ resp.at <= EntryOf(resp.sid).expiresAt
    /\ resp.status = 401

\* C3 as stated: a verify at the time of issue succeeds, and every verify
\* after expiresAt is answered with SessionExpired (401 "Session expired").
C3_ExpiredIsSessionExpired ==
    VerifiedGenuine =>
        /\ (resp.at = EntryOf(resp.sid).createdAt /\ resp.sid \notin revoked)
               => resp.status = 200
        /\ resp.at > EntryOf(resp.sid).expiresAt
               => (resp.status = 401 /\ resp.message = MsgSessionExpired)
\* C3 amended: a verify at the time of issue succeeds, and every verify after
\* expiresAt fails: 403 "Invalid or expired token" when the token's own
\* lifetime has run out, else 401 "Session expired"; never success.
C3_ExpiredNeverVerifies ==
    VerifiedGenuine =>
        /\ (resp.at = EntryOf(resp.sid).createdAt /\ resp.sid \notin revoked)
               => resp.status = 200
        /\ resp.at > EntryOf(resp.sid).expiresAt
               => \/ (resp.status = 403 /\ resp.message = MsgBadToken
                        /\ JwtExpired(TokenOf(resp), resp.at))
                  \/ (resp.status = 401 /\ resp.message = MsgSessionExpired
                        /\ ~JwtExpired(TokenOf(resp), resp.at))
\* a session that was never revoked is refused after its expiresAt, here by
\* the session check because the token is configured to live longer
C3_Witness ==
    /\ VerifiedGenuine
    /\ resp.sid \notin revoked
    /\ resp.at > EntryOf(resp.sid).expiresAt
    /\ resp.status = 401
\* ... and here by the token check
C3_WitnessToken ==
    /\ VerifiedGenuine
    /\ resp.sid \notin revoked
    /\ resp.at > EntryOf(resp.sid).expiresAt
    /\ resp.status = 403

\* C4: a verify succeeds if and only if issuedAt <= now < expiresAt and the
\* session has not been revoked; at now = expiresAt it does not succeed.
C4_UsableIffInLifetime ==
    VerifiedGenuine =>
        (resp.status = 200 <=>
            /\ EntryOf(resp.sid).createdAt <= resp.at
            /\ resp.at < EntryOf(resp.sid).expiresAt
            /\ resp.sid \notin revoked)

\* C5: of six wrong-credential logins of one client in one window, at least
\* one of the fourth to sixth is answered 429.
C5_SixAttempts ==
    \A ip \in ClientIPs :
        Len(failLog[ip]) >= 6 => \E i \in 4..6 : failLog[ip][i] = 429
C5_Witness ==
    /\ Len(failLog["ip1"]) >= 6
    /\ failLog["ip1"][5] = 401
    /\ failLog["ip1"][6] = 429

\* C6: once a client has AuthMax failed logins in the window, every login
\* that arrives from it is answered 429, valid credentials or not.
C6_LimitedRegardless ==
    [][\A ip \in ClientIPs :
          (/\ failCount[ip] >= AuthMax
           /\ authHits'[ip] = authHits[ip] + 1)
          => (/\ resp'.op = "login" /\ resp'.ip = ip /\ resp'.at = now
              /\ resp'.status = 429
              /\ loginsInFlight' = loginsInFlight)]_vars
\* a login with valid credentials is answered 429 after the failures
C6_Witness ==
    /\ resp.op = "login"
    /\ resp.valid
    /\ resp.status = 429
    /\ failCount[resp.ip] > AuthMax

\* C7: every successful login has a session id no other login has, and the
\* session record under that id, while it is stored, is the one that login
\* created.
C7_DistinctSessions ==
    /\ \A i, j \in 1..Len(issued) :
          i # j => issued[i].token.payload.sessionId # issued[j].token.payload.sessionId
    /\ \A i \in 1..Len(issued) :
          LET sid == issued[i].token.payload.sessionId
          IN  sid \in DOMAIN activeSessions =>
                  /\ activeSessions[sid].createdAt = issued[i].createdAt
                  /\ activeSessions[sid].expiresAt = issued[i].expiresAt
                  /\ activeSessions[sid].userId = issued[i].token.payload.userId
    /\ Cardinality(DOMAIN activeSessions) <= Len(issued)
\* two logins with the same credentials were suspended together and both
\* sessions are stored
C7_Witness ==
    /\ Len(issued) >= 2
    /\ overlapped # {}
    /\ issued[1].token.payload.sessionId \in DOMAIN activeSessions
    /\ issued[2].token.payload.sessionId \in DOMAIN activeSessions
    /\ issued[1].token.payload.userId = issued[2].token.payload.userId

\* C8: logins with valid credentials that are in flight together, from a
\* client with no failed login in the window, are all answered 200.
C8_ConcurrentValidSucceed ==
    [][(/\ resp' # resp
        /\ resp'.op = "login"
        /\ resp'.valid
        /\ failCount[resp'.ip] = 0
        /\ \A r \in BagToSet(loginsInFlight) :
               CredentialsValid(r.username, r.password))
       => resp'.status = 200]_vars

\* C9: a login refused because the user is unknown and a login refused
\* because the password is wrong show the caller the same status, message
\* and (absent) token.
CredentialCauses == {"login_user_not_found", "login_invalid_password"}
C9_Indistinguishable ==
    \A a, b \in loginOutcomes :
        (a[1] \in CredentialCauses /\ b[1] \in CredentialCauses) => a[2] = b[2]
C9_Witness ==
    /\ \E a \in loginOutcomes : a[1] = "login_user_not_found"
    /\ \E b \in loginOutcomes : b[1] = "login_invalid_password"

\* C2: no protected operation (secure upload, upload history, upload delete,
\* audit log query) lets a token through whose session is not in the session
\* store, however well signed and unexpired the token is.
ProtectedOps == {"upload", "history", "delete", "audit_logs"}
C2_ProtectedOpsCheckSession ==
    /\ (/\ resp.op \in ProtectedOps
        /\ resp.valid
        /\ resp.audit # "secure_upload_failed")
           => resp.sid \in DOMAIN activeSessions
    /\ \A u \in uploadsInFlight : u.sessionStored

\* C10: every encrypt call of a secure upload uses a data key that the key
\* service generated for that very upload, and no two encrypt calls use the
\* same key.
C10_OneKeyPerUpload ==
    /\ Len(encryptLog) = Len(kmsCalls)
    /\ \A i \in 1..Len(encryptLog) :
          /\ encryptLog[i].key.no \in 1..Len(kmsCalls)
          /\ kmsCalls[encryptLog[i].key.no] = encryptLog[i].uploadId
    /\ \A i, j \in 1..Len(encryptLog) :
          i # j => /\ encryptLog[i].key # encryptLog[j].key
                   /\ encryptLog[i].uploadId # encryptLog[j].uploadId
\* two uploads were suspended on the key service together and each went on
\* to encrypt with its own key
C10_Witness ==
    /\ Len(encryptLog) >= 2
    /\ encryptLog[1].key # encryptLog[2].key
    /\ encryptLog[2].uploadId < encryptLog[1].uploadId

(* ---------------- data keys and what is stored ---------------- *)
Leaves(rec) == {rec[f] : f \in DOMAIN rec}
\* every value a stored object holds
ObjectValues(o) ==
    IF o.kind = "photo"
    THEN {o.Body} \cup Leaves(o.Metadata) \cup Leaves(o.Tagging)
    ELSE {o[f] : f \in DOMAIN o \ {"kind", "uploadId"}}
\* the number of the data key that the upload encrypted with
KeyNoOf(uploadId) ==
    (CHOOSE i \in 1..Len(encryptLog) : encryptLog[i].uploadId = uploadId)
SucceededUploads ==
    {r.uploadId : r \in {x \in produced : x.kind = "response" /\ x.status = 200
                                               /\ x.fields.message = Str(MsgUploaded)}}

PlaintextForms(n) ==
    {GenerateDataKey(n).plaintextKey, Base64Decode(GenerateDataKey(n).plaintextKey)}
C12_PlaintextKeyNeverLeaves ==
    \A n \in 1..Len(kmsCalls) : \A key \in PlaintextForms(n) :
        /\ \A k \in DOMAIN s3 : key \notin ObjectValues(s3[k])
        /\ \A a \in produced : key \notin Leaves(a.fields)
\* an upload got a data key, stored its photo and its metadata record and
\* reported success
C12_Witness ==
    /\ SucceededUploads # {}
    /\ \E id \in SucceededUploads :
           /\ \E i \in 1..Len(encryptLog) : encryptLog[i].uploadId = id
           /\ \E k \in DOMAIN s3 : s3[k].kind = "metadata" /\ s3[k].uploadId = id
           /\ \E k \in DOMAIN s3 : s3[k].kind = "photo" /\ s3[k].uploadId = id

\* C13: an upload is failed for want of a data key only after more than one
\* kms.generateDataKey request was made for it.
C13_KeyFailureAfterRetries ==
    \A f \in kmsFailures : f.kmsRequests > 1

(* ---------------- the audit logger ---------------- *)
Entries(log) == {log[i] : i \in 1..Len(log)}
\* everything that left the logger
Emitted == Entries(auditLog) \cup Entries(securityLog) \cup Entries(fallbackLog)
EmittedFor(call) ==
    {e \in Entries(auditLog) \cup Entries(securityLog) :
        e[<<"event", "Id">>] = call.eventId}
Calls == Entries(logCalls)

\* C14: no call of log raises into its caller, whatever the level, event
\* type and fields, and also when the log sink throws.
C14_LogNeverRaises ==
    \A call \in Calls : ~call.raised
\* a call whose sink threw came back without raising and left its report on
\* the fallback logger
C14_Witness ==
    /\ \E call \in Calls : ~call.sinkOk /\ call.level = "info" /\ ~call.raised
    /\ fallbackLog # << >>

\* C15: every call of log returns a generated event id, and no two calls
\* return the same one.
C15_DistinctGeneratedIds ==
    /\ \A call \in Calls : "id" \in DOMAIN call.returned
    /\ \A i, j \in 1..Len(logCalls) :
           i # j => logCalls[i].returned # logCalls[j].returned

\* C16: in everything the logger emits, a field at any depth whose key
\* contains one of the sensitive words holds the redaction marker.
ClaimedSensitiveWords ==
    {"password", "token", "secret", "key", "authorization", "cookie", "session", "csrf"}
KeyIsSensitive(key) ==
    \E i \in 1..Len(key) : Lower(key[i]) \in ClaimedSensitiveWords
RECURSIVE AllRedacted(_)
AllRedacted(obj) ==
    \A key \in DOMAIN obj :
        /\ KeyIsSensitive(key) => obj[key] = Redacted
        /\ (~KeyIsSensitive(key) /\ IsObject(obj[key])) => AllRedacted(obj[key].obj)
C17_PatientIdHashed ==
    \A call \in Calls :
        Has(call.eventData, <<"patient", "Id">>) =>
            \A e \in EmittedFor(call) :
                /\ ~Has(e, <<"patient", "Id">>)
                /\ Has(e, <<"hashed", "Patient", "Id">>)
                /\ e[<<"hashed", "Patient", "Id">>] =
                       HashSensitiveData(call.eventData[<<"patient", "Id">>].str)
                /\ e[<<"hashed", "Patient", "Id">>].hexLength = 16
                /\ \A key \in DOMAIN e : e[key] # call.eventData[<<"patient", "Id">>]
C17_Witness ==
    \E call \in Calls :
        /\ Has(call.eventData, <<"patient", "Id">>)
        /\ \E e \in Entries(auditLog) : e[<<"event", "Id">>] = call.eventId
        /\ \E e \in Entries(securityLog) : e[<<"event", "Id">>] = call.eventId

\* C18: every recorded event of a high-severity category (unauthorized
\* access, intrusion) is also written to the security alerts log, flagged
\* as requiring a response.
HighSeverityCategories == {<<"unauthorized", "access">>, <<"intrusion", "detected">>}
C18_HighSeverityEscalated ==
    \A call \in Calls :
        (/\ call.eventType.name \in HighSeverityCategories
         /\ \E e \in Entries(auditLog) : e[<<"event", "Id">>] = call.eventId)
        => \E e \in Entries(securityLog) :
               /\ e[<<"event", "Id">>] = call.eventId
               /\ e[<<"requires", "Response">>] = Bool(TRUE)

\* C19: every audit query is a query for the events of the caller's own
\* organization, whatever organizationId the request names.
C19_QueryScopedToCaller ==
    \A q \in auditQueries : q.answer.query.organizationId = q.caller

(* ---------------- encrypt and decrypt ---------------- *)
\* C20: every encrypt under a 32-byte key returns a record that decrypt,
\* under the same key and associated data, turns back into the plaintext.
C20_RoundTrip ==
    \A i \in 1..Len(cryptoLog) :
        LET c == cryptoLog[i]
            k == IF c.key.enc = "base64" THEN Base64Decode(c.key) ELSE c.key
        IN  (c.op = "encrypt" /\ k.length = KEY_LENGTH) =>
                /\ c.result.ok
                /\ Decrypt(c.result.data, c.key, c.aad) =
                       [ok |-> TRUE, error |-> None, data |-> c.input]

\* C21: decrypt of a valid record with one byte of its ciphertext or of its
\* tag changed raises 'Decryption failed' and returns no plaintext, whatever
\* key and associated data it is called with.
C21_TamperedNeverDecrypts ==
    \A i \in 1..Len(cryptoLog) :
        LET c == cryptoLog[i]
        IN  (c.op = "decryptSealed" /\ c.part \in TamperedParts) =>
                /\ ~c.result.ok
                /\ c.result.error = "Decryption failed"
                /\ c.result.data = << >>
\* where the crypto module has createDecipherGCM and the untouched record
\* would decrypt, a changed ciphertext byte and a changed tag byte were refused
C21_Witness ==
    /\ "createDecipherGCM" \in cryptoExports
    /\ \E i \in 1..Len(cryptoLog) :
           LET c == cryptoLog[i]
           IN  /\ c.op = "decryptSealed"
               /\ c.part \in TamperedParts
               /\ ~c.result.ok
               /\ Decrypt(Seal(SealedPlaintext, SealingKey, c.sealedWith),
                          c.key, c.aad).ok

NoAssociatedData(v) == v \in {None, ""}
PhiDecrypts == {c \in Entries(cryptoLog) : c.op = "decryptPHI"}
C25_PhiRoundTrip ==
    \A c \in Entries(cryptoLog) :
        LET k == IF c.key.enc = "base64" THEN Base64Decode(c.key) ELSE c.key
        IN  (c.op = "encryptPHI" /\ k.length = KEY_LENGTH) =>
                /\ c.result.ok
                /\ DOMAIN c.result.envelope[1] =
                       {"encrypted_data", "integrity_hash", "encrypted_at"}
                /\ c.result.envelope[1].encrypted_at = c.timestamp
                /\ DecryptPHI(c.result.envelope[1], c.key).ok
                /\ DecryptPHI(c.result.envelope[1], c.key).data = <<c.phiData>>

(* ---------------- hash and verifyHash: properties ---------------- *)
HashCalls == {c \in Entries(cryptoLog) : c.op = "hash"}
\* C26: hash gives the same result for the same data and supplied salt, and
\* for its result r verifyHash(data, r.hash, r.salt) is true and
\* verifyHash(other, r.hash, r.salt) is false for other data, whether the
\* salt was supplied or generated.
C26_HashVerifies ==
    \A c \in HashCalls :
        /\ ~SaltFalsy(c.salt) => c.again = c.result
        /\ c.verified
        /\ c.other # c.data => ~c.verifiedOther

(* ---------------- organization isolation of stored objects ---------------- *)
\* the organization of the account that an object's uploader id names
UploaderOrganizations(o) ==
    LET userId == IF o.kind = "photo" THEN o.Metadata.userId ELSE o.userId
    IN  {users[a].organizationId : a \in {x \in DOMAIN users : Str(users[x].id) = userId}}
OrgDenied ==
    {r \in produced : r.kind = "response" /\ r.status = 403
                        /\ r.fields.message = Str(MsgOrgDenied)}
\* C27: every object in the bucket is under a key that starts with the
\* organization of the user who uploaded it, every upload that got past the
\* checks names the organization of its token, and an upload answered
\* 'Organization access denied' has no object in the bucket and none on the way.
C27_StoredUnderOwnOrganization ==
    /\ \A k \in DOMAIN s3 : UploaderOrganizations(s3[k]) = {k.org}
    /\ \A u \in uploadsInFlight : u.organizationId = u.user.organizationId
    /\ \A r \in OrgDenied :
          /\ \A k \in DOMAIN s3 : s3[k].uploadId # r.uploadId
          /\ \A u \in uploadsInFlight : u.uploadId # r.uploadId
\* one upload stored its photo and its metadata record, and another one that
\* named a foreign organization was turned away
C27_Witness ==
    /\ \E k \in DOMAIN s3 : s3[k].kind = "photo"
    /\ \E k \in DOMAIN s3 : s3[k].kind = "metadata"
    /\ OrgDenied # {}

(* ---------------- deletion of stored uploads ---------------- *)
MayDelete(user) == "delete" \in user.permissions \/ user.role = "admin"
ObjectsOf(bucket, uploadId) == {k \in DOMAIN bucket : bucket[k].uploadId = uploadId}
Deleted ==
    {r.uploadId : r \in {x \in produced : x.kind = "response" /\ x.status = 200
                                               /\ x.fields.message = Str(MsgDeleted)}}
C29_ExpiryWithoutSweep ==
    [][/\ \A ip \in SessionClients, tok \in IssuedTokens :
             (/\ Verify(ip, tok)
              /\ MapHas(activeSessions, tok.payload.sessionId)
              /\ now > activeSessions[tok.payload.sessionId].expiresAt)
             => /\ resp'.op = "verify"
                /\ resp'.status \in {401, 403, 429}
       /\ CleanupExpiredSessions =>
             /\ \A s \in DOMAIN activeSessions :
                   s \in DOMAIN activeSessions' <=> ~(now > activeSessions[s].expiresAt)
             /\ \A s \in DOMAIN activeSessions' : activeSessions'[s] = activeSessions[s]]_vars
\* a verify was refused for a session that had run out and that no sweep and
\* no earlier verify had taken out of the store
C29_Witness ==
    /\ VerifiedGenuine
    /\ MapHas(activeSessions, resp.sid)
    /\ resp.at > activeSessions[resp.sid].expiresAt
    /\ resp.status # 200

\* C30: a logout that gets past the limiter and the token check answers 200
\* 'Logged out successfully' whether or not the store holds the session, and
\* leaves the store without that session and otherwise as it was.
C30_RevokeIdempotent ==
    [][\A ip \in SessionClients, tok \in IssuedTokens :
          (/\ Logout(ip, tok)
           /\ ~LimiterBlocks(LimiterIncrement(authHits, ip), ip)
           /\ AuthenticateToken(tok, now))
          => /\ resp'.status = 200
             /\ resp'.message = MsgLoggedOut
             /\ DOMAIN activeSessions' = DOMAIN activeSessions \ {tok.payload.sessionId}
             /\ \A s \in DOMAIN activeSessions' : activeSessions'[s] = activeSessions[s]]_vars
\* the session was logged out a second time inside its lifetime, when only
\* the first logout can have removed it, and the second was answered 200
C30_Witness ==
    /\ resp.op = "logout"
    /\ resp.status = 200
    /\ ~resp.stored
    /\ resp.at <= EntryOf(resp.sid).expiresAt
    /\ ~MapHas(activeSessions, resp.sid)

(* ---------------- rate limiting and the audit trail ---------------- *)
\* C31: every login answered 429 has handed an event of level 'warning' to
\* the audit logger.
C31_RateLimitedAudited ==
    (resp.op = "login" /\ resp.status = 429) =>
        LoginAuditLevel(resp.audit) = "warning"

(* ---------------- secure upload and partial state ---------------- *)
FailedUploads ==
    {r.uploadId : r \in {x \in produced : x.kind = "response" /\ x.status = 500
                                               /\ x.fields.message = Str(MsgUploadFailed)}}
C38_WarningsForwarded ==
    \A call \in Calls :
        (/\ call.level \in {"warning", "warn", "error"}
         /\ \E e \in Entries(auditLog) : e[<<"event", "Id">>] = call.eventId)
        => \E e \in Entries(securityLog) :
               /\ e[<<"event", "Id">>] = call.eventId
               /\ Has(e, <<"severity">>)
               /\ Has(e, <<"requires", "Response">>)

(* ---------------- failed logins and the session store ---------------- *)
\* C40: a login that is turned away by the limiter or the handler, or whose
\* password turns out wrong once bcrypt.compare has resolved, is answered
\* 401 or 429 without a token, and the step leaves the session store and the
\* record of issued tokens as they were.
C40_FailedLoginNoSession ==
    [][/\ \A ip \in ClientIPs, u \in Usernames, p \in Passwords :
             LoginBegin(ip, u, p) =>
                 /\ activeSessions' = activeSessions
                 /\ issued' = issued
                 /\ resp' # resp => (resp'.status \in {401, 429} /\ resp'.token = {})
       /\ \A r \in BagToSet(loginsInFlight) :
             (LoginFinish(r) /\ ~(r.username = "demo" /\ r.password = "good")) =>
                 /\ activeSessions' = activeSessions
                 /\ issued' = issued
                 /\ resp'.status = 401
                 /\ resp'.token = {}]_vars
\* a login with a wrong password was refused while the store held a session,
\* and the store holds exactly the sessions that were issued
C40_Witness ==
    /\ resp.op = "login"
    /\ resp.status = 401
    /\ resp.audit = "login_invalid_password"
    /\ resp.token = {}
    /\ activeSessions # << >>
    /\ Cardinality(DOMAIN activeSessions) = Len(issued)

(* ---------------- the offline upload queue: properties ---------------- *)
QueuedKeys == 1..Len(fetchLog)
Deliveries(k) == {i \in DOMAIN fetchLog[k] : fetchLog[k][i] = "ok"}
Failures(k) == {i \in DOMAIN fetchLog[k] : fetchLog[k][i] # "ok"}
Reported(k, type) == [type |-> type, id |-> k] \in clientMessages
\* the request answered 202 as the n-th is out of the store and its outcome
\* was posted to the clients
Settled(n) ==
    /\ Len(handled) >= n
    /\ \A k \in DOMAIN uploads : uploads[k].request # n
    /\ \/ Reported(handled[n].key, "UPLOAD_COMPLETED")
       \/ Reported(handled[n].key, "UPLOAD_FAILED")

\* C32: every upload request that the worker answered as queued because the
\* network was unavailable is eventually out of the queue with its outcome
\* reported, delivered or failed.
C32_QueuedEventuallySettled ==
    \A n \in 1..MaxQueued :
        (Len(handled) >= n /\ handled[n].status = StatusQueued) ~> Settled(n)

PendingOf(u) == {x \in attempts \cup retryTimers : x.upload = u}
Idle == ~isUploading /\ ~uploadBtnDisabled

\* C34: an upload is attempted at most 1 + maxRetries times, it has at most
\* one attempt running or scheduled at a time, once an attempt of it has met a
\* cause that is not worth a retry (bad credentials, bad signature, denied
\* access, missing bucket) it has no further attempt, and none after its
\* final failure.
C34_BoundedRetries ==
    \A u \in DOMAIN uploadLog :
        /\ uploadLog[u].started <= 1 + MaxRetries
        /\ Cardinality(PendingOf(u)) <= 1
        /\ uploadLog[u].denied => PendingOf(u) = {}
        /\ uploadLog[u].result = "failed" => PendingOf(u) = {}

\* C36: once an upload has ended, in success or in a failure that is not
\* retried, the uploader is eventually idle: isUploading false and the
\* button enabled.
C36_EventuallyIdle ==
    \A u \in 1..MaxPageUploads :
        (u \in DOMAIN uploadLog /\ uploadLog[u].result # "pending") ~> Idle

\* C37: while an attempt is running or a retry is scheduled isUploading is
\* true, and the attempts running or scheduled all belong to one upload.
C37_OneUploadAtATime ==
    /\ Chains # {} => isUploading
    /\ Cardinality(Chains) <= 1

====
